---- MODULE Spec2Model ----
(***************************************************************************)
(* The load executor of dlt (dlt/loaders/loader.py) driving a job client   *)
(* (dlt/loaders/redshift/client.py, dlt/loaders/gcp/client.py) over the    *)
(* load packages of a loader storage.                                      *)
(*                                                                         *)
(* One tick is one call of load(pool).  A tick is a sequence of steps      *)
(* (pc); the spool workers of pool.starmap interleave; the process can be  *)
(* killed between any two steps (Crash) and a later tick then starts from  *)
(* what is on disk and at the destination.                                 *)
(***************************************************************************)
EXTENDS Integers, Sequences, FiniteSets, TLC

\* ------------------------------------------------------------ bounds
NumLoads == 2      \* load packages under the load root, ids 1..NumLoads
NumFiles == 3      \* job files, dealt round-robin to the packages
MaxWorkers == 2    \* CONFIG.WORKERS ranges over 1..MaxWorkers
MaxFaults == 2     \* kills and transient exceptions in one behaviour
MaxInserts == 2    \* committed insert transactions counted per file
MaxNameLen == 3    \* characters of a job file name
MaxRows == 2       \* rows of a table before a load, rows of a file
MaxHints == 2      \* hints set on one new column
NumPipelines == 2  \* pipeline objects of one process
MaxCalls == 4      \* calls made on the pipeline objects in one behaviour
MaxExtracts == 2   \* extract calls that reach the extractor storage
MaxItems == 2      \* records of one extract
MaxVersion == 4    \* versions a version file may hold

Loads == 1..NumLoads
Files == 1..NumFiles

\* The package of a file (files are dealt round-robin: 1 -> 1, 2 -> 2, 3 -> 1).
PkgOf(f) == ((f - 1) % NumLoads) + 1
FilesOf(p) == {f \in Files : PkgOf(f) = p}

Folders == {"new", "started", "failed", "completed"}

VARIABLES
    \* configuration and inputs, fixed in a behaviour
    CLIENT_TYPE,            \* "redshift" (synchronous insert) or "gcp" (server-side load jobs)
    WORKERS,                \* CONFIG.WORKERS
    DELETE_COMPLETED_JOBS,  \* loader configuration flag set by the pipeline
    fileKind,               \* per file: "good", "baddata" (the load itself fails terminally),
                            \* "rejected" (spool_job's checks fail before start_file_load)
    schemaUpdate,           \* per package: "none" (no schema_updates sentinel), "ok",
                            \* "will_not_update" (update_storage_schema raises SchemaWillNotUpdate)
    \* the loader storage (disk)
    folder,                 \* folder[p][d]: the job files in <load_id p>/<d>/
    sentinel,               \* sentinel[p]: schema_updates.json is present in package p
    pkg,                    \* "live" (under the load root), "archived", "deleted"
    exception_files,        \* the job files with a sibling <file>.exception
    \* the destination
    inserts,                \* inserts[f]: loads of file f made at the destination: committed
                            \* insert transactions (Redshift), load jobs created (BigQuery)
    serverJob,              \* serverJob[f]: the server-side load job with f's job id
    \* the process
    pc,                     \* position inside load(), "idle" between ticks
    load_id,                \* the package the tick works on
    jobs,                   \* jobs[f]: the LoadJob held for f in this tick
    todo,                   \* files still to restore (retrieve_jobs) or to poll in this round
    remaining,              \* remaining_jobs of the current complete_jobs round
    tasks,                  \* param_chunk of spool_new_jobs: the files handed to the pool
    wstate,                 \* wstate[i]: where the worker of tasks[i] is inside spool_job
    log,                    \* the client and storage calls of this tick, in order
    load_counter,           \* loader_load_package_counter of this process
    archivedByProc,         \* packages this process has archived
    faults,                 \* kills and transient exceptions so far
    \* a single call of a function of the clients or of spool_job, taken alone
    unit                    \* its arguments, where it is, and what it returned

cfgVars == <<CLIENT_TYPE, WORKERS, DELETE_COMPLETED_JOBS, fileKind, schemaUpdate>>
diskVars == <<folder, sentinel, pkg, exception_files>>
destVars == <<inserts, serverJob>>
tickVars == <<pc, load_id, jobs, todo, remaining, tasks, wstate, log>>
procVars == <<load_counter, archivedByProc>>
loaderVars == <<cfgVars, diskVars, destVars, tickVars, procVars, faults>>
vars == <<loaderVars, unit>>

\* ------------------------------------------------------------ helpers
Min(S) == CHOOSE x \in S : \A y \in S : x <= y

RECURSIVE SortedSeq(_)
\* A listing: the names of S in lexicographic (here: increasing) order.
SortedSeq(S) == IF S = {} THEN <<>> ELSE <<Min(S)>> \o SortedSeq(S \ {Min(S)})

Range(s) == {s[i] : i \in 1..Len(s)}

\* s[:n]
Take(s, n) == SubSeq(s, 1, IF n < Len(s) THEN n ELSE Len(s))

NoJobs == [f \in Files |-> "none"]

\* No single call is looked at.
NoUnit == [fn |-> "none"]

Entry(op, f, r) == [op |-> op, f |-> f, r |-> r]

\* ------------------------------------------------------------ loader storage
\* The packages under the load root, in lexicographic order.
list_loads == SortedSeq({p \in Loads : pkg[p] = "live"})

list_new_jobs(p) == SortedSeq(folder[p]["new"])

\* A mutant of list_started_jobs: the files in started/ are not seen.
list_started_jobs_None(p) == <<>>

list_started_jobs(p) == SortedSeq(folder[p]["started"])

\* One atomic rename of f from <p>/<src>/ to <p>/<dst>/.
MoveFile(fl, p, f, src, dst) ==
    [fl EXCEPT ![p] = [@ EXCEPT ![src] = @ \ {f}, ![dst] = @ \cup {f}]]

start_job(fl, p, f) == MoveFile(fl, p, f, "new", "started")
complete_job(fl, p, f) == MoveFile(fl, p, f, "started", "completed")
fail_job(fl, p, f) == MoveFile(fl, p, f, "started", "failed")
\* fail_job(load_id, file, failed_message) also writes <file>.exception if a message is given.
fail_job_exception(ex, f, message) == IF message # "None" THEN ex \cup {f} ELSE ex
retry_job(fl, p, f) == MoveFile(fl, p, f, "started", "new")

\* archive_load: the package leaves the load root for completed/<load_id>; with
\* DELETE_COMPLETED_JOBS a package without failed jobs is deleted instead.
\* folder[p] of a deleted package keeps what the package held when it was deleted.
archive_load(p) ==
    IF DELETE_COMPLETED_JOBS /\ folder[p]["failed"] = {} THEN "deleted" ELSE "archived"

\* f is a file of <package>/<d>/ on disk, under the load root or in the archive.
OnDisk(f, d) == pkg[PkgOf(f)] # "deleted" /\ f \in folder[PkgOf(f)][d]

\* begin_schema_update: the schema update of the package, if its sentinel is there.
begin_schema_update(p) == sentinel[p]

\* ------------------------------------------------------------ Init
Init ==
    /\ CLIENT_TYPE \in {"redshift", "gcp"}
    /\ WORKERS \in 1..MaxWorkers
    /\ DELETE_COMPLETED_JOBS \in BOOLEAN
    /\ fileKind \in [Files -> {"good", "baddata", "rejected"}]
    /\ schemaUpdate \in [Loads -> {"none", "ok", "will_not_update"}]
    /\ folder = [p \in Loads |-> [d \in Folders |-> IF d = "new" THEN FilesOf(p) ELSE {}]]
    /\ sentinel = [p \in Loads |-> schemaUpdate[p] # "none"]
    /\ pkg = [p \in Loads |-> "live"]
    /\ exception_files = {}
    /\ inserts = [f \in Files |-> 0]
    /\ serverJob = [f \in Files |-> "none"]
    /\ pc = "idle"
    /\ load_id = 0
    /\ jobs = NoJobs
    /\ todo = {}
    /\ remaining = {}
    /\ tasks = <<>>
    /\ wstate = <<>>
    /\ log = <<>>
    /\ load_counter = 0
    /\ archivedByProc = 0
    /\ faults = 0
    /\ unit = NoUnit

\* ------------------------------------------------------------ the tick: load()
Logged(op, f, r) == Append(log, Entry(op, f, r))

\* What the log of the tick says.
LogIdx(op) == {i \in 1..Len(log) : log[i].op = op}
LogOf(op, f) == {i \in 1..Len(log) : log[i].op = op /\ log[i].f = f}
Called(op) == LogIdx(op) # {}
Restored == {f \in Files : LogOf("restore_file_load", f) # {}}
InTick == pc \notin {"idle"}

\* An exception leaves load(): the tick is over, nothing on disk is touched.
Raise(op, f, r) ==
    /\ pc' = "failed"
    /\ log' = Logged(op, f, r)
    /\ UNCHANGED <<load_id, jobs, todo, remaining, tasks, wstate>>

\* A transient exception (network, timeout, lock) of a client call.
CanFault == faults < MaxFaults

\* A mutant of PickLoad: the last package of the listing.
PickLoad_Last(loads) == loads[Len(loads)]

\* load(), line 201: load_id = loads[0].
PickLoad(loads) == loads[1]

\* load(), lines 193-207: list the packages, pick the first, load its schema.
TickStart ==
    /\ pc = "idle"
    /\ IF Len(list_loads) = 0
       THEN /\ pc' = "done"
            /\ load_id' = 0
       ELSE /\ pc' = "init"
            /\ load_id' = PickLoad(list_loads)
    /\ jobs' = NoJobs
    /\ todo' = {}
    /\ remaining' = {}
    /\ tasks' = <<>>
    /\ wstate' = <<>>
    /\ log' = <<>>
    /\ UNCHANGED <<unit, cfgVars, diskVars, destVars, procVars, faults>>

\* load(), lines 209-211: open the client, initialize_storage().
InitializeStorage ==
    /\ pc = "init"
    /\ \/ /\ pc' = "schema"
          /\ log' = Logged("initialize_storage", 0, "ok")
          /\ UNCHANGED <<load_id, jobs, todo, remaining, tasks, wstate, faults>>
       \/ /\ CanFault
          /\ faults' = faults + 1
          /\ Raise("initialize_storage", 0, "transient")
    /\ UNCHANGED <<unit, cfgVars, diskVars, destVars, procVars>>

\* A mutant of NeedsSchemaUpdate: the update is made whether or not the sentinel is there.
NeedsSchemaUpdate_Always(p) == TRUE

\* load(), lines 212-213: if schema_update.
NeedsSchemaUpdate(p) == begin_schema_update(p)

\* A mutant of update_storage_schema: hints on new columns are not checked.
update_storage_schema_NoHintCheck(p) == "ok"

\* update_storage_schema of the client: a new hinted column for a table that
\* exists raises LoadClientSchemaWillNotUpdate (terminal).
update_storage_schema(p) ==
    IF schemaUpdate[p] = "will_not_update" THEN "terminal" ELSE "ok"

\* load(), lines 212-216: begin_schema_update, update_storage_schema().
UpdateStorageSchema ==
    /\ pc = "schema"
    /\ IF ~NeedsSchemaUpdate(load_id)
       THEN /\ pc' = "retrieve"
            /\ UNCHANGED <<load_id, jobs, todo, remaining, tasks, wstate, log, faults>>
       ELSE \/ /\ update_storage_schema(load_id) = "ok"
               /\ pc' = "commit"
               /\ log' = Logged("update_storage_schema", 0, "ok")
               /\ UNCHANGED <<load_id, jobs, todo, remaining, tasks, wstate, faults>>
            \/ /\ update_storage_schema(load_id) = "terminal"
               /\ Raise("update_storage_schema", 0, "terminal")
               /\ UNCHANGED faults
            \/ /\ CanFault
               /\ faults' = faults + 1
               /\ Raise("update_storage_schema", 0, "transient")
    /\ UNCHANGED <<unit, cfgVars, diskVars, destVars, procVars>>

\* load(), line 217: commit_schema_update deletes the sentinel.
CommitSchemaUpdate ==
    /\ pc = "commit"
    /\ sentinel' = [sentinel EXCEPT ![load_id] = FALSE]
    /\ pc' = "retrieve"
    /\ log' = Logged("commit_schema_update", 0, "ok")
    /\ UNCHANGED <<load_id, jobs, todo, remaining, tasks, wstate>>
    /\ UNCHANGED <<unit, cfgVars, folder, pkg, exception_files, destVars, procVars, faults>>

\* retrieve_jobs(), lines 126-132: list started/.
RetrieveJobs ==
    /\ pc = "retrieve"
    /\ todo' = Range(list_started_jobs(load_id))
    /\ pc' = IF Len(list_started_jobs(load_id)) = 0 THEN "spool" ELSE "restore"
    /\ UNCHANGED <<load_id, jobs, remaining, tasks, wstate, log>>
    /\ UNCHANGED <<unit, cfgVars, diskVars, destVars, procVars, faults>>

\* restore_file_load of the client.
\* Redshift: always a completed job, the warehouse is not contacted.
\* BigQuery: get_job(job id); NotFound raises LoadJobNotExistsException (terminal).
restore_file_load(f) ==
    IF CLIENT_TYPE = "redshift" THEN "completed"
    ELSE IF serverJob[f] = "none" THEN "LoadJobNotExists" ELSE "server"

\* A mutant of RetrievedJob: a terminal exception is taken for a finished job.
RetrievedJob_Completed(r) == IF r = "LoadJobNotExists" THEN "completed" ELSE r

\* retrieve_jobs(), lines 135-145: the job appended for what the client returned
\* or raised; a terminal exception makes a job with status failed.
RetrievedJob(r) == IF r = "LoadJobNotExists" THEN "failed" ELSE r

\* retrieve_jobs(), lines 134-152: one round of the loop.
RestoreFileLoad ==
    /\ pc = "restore"
    /\ todo # {}
    /\ LET f == Min(todo) IN
       \/ /\ jobs' = [jobs EXCEPT ![f] = RetrievedJob(restore_file_load(f))]
          /\ todo' = IF todo = {f}
                     THEN {g \in Files : jobs'[g] # "none"}
                     ELSE todo \ {f}
          /\ pc' = IF todo = {f} THEN "poll" ELSE "restore"
          /\ log' = Logged("restore_file_load", f,
                           IF restore_file_load(f) = "LoadJobNotExists"
                           THEN "terminal" ELSE "ok")
          /\ UNCHANGED <<load_id, remaining, tasks, wstate, faults>>
       \/ /\ CLIENT_TYPE = "gcp"
          /\ CanFault
          /\ faults' = faults + 1
          /\ Raise("restore_file_load", f, "transient")
    /\ UNCHANGED <<unit, cfgVars, diskVars, destVars, procVars>>

\* A mutant of LoadFiles: the listing is not cut to WORKERS.
LoadFiles_All(p) == list_new_jobs(p)

\* spool_new_jobs(), line 111.
LoadFiles(p) == Take(list_new_jobs(p), WORKERS)

\* spool_new_jobs(), lines 111-120: hand the first WORKERS new files to the pool.
SpoolNewJobs ==
    /\ pc = "spool"
    /\ tasks' = LoadFiles(load_id)
    /\ wstate' = [i \in 1..Len(LoadFiles(load_id)) |-> "submitted"]
    /\ pc' = IF Len(LoadFiles(load_id)) = 0 THEN "complete_load" ELSE "pool"
    /\ UNCHANGED <<load_id, jobs, todo, remaining, log>>
    /\ UNCHANGED <<unit, cfgVars, diskVars, destVars, procVars, faults>>

SetW(i, s) == [wstate EXCEPT ![i] = s]

\* A mutant of create_load_job: the job id is not that of the file, the server
\* takes every call for a new job.
create_load_job_FreshId(f) == "created"

\* BigQueryClient._create_load_job: load_table_from_file with the job id of the
\* file; the server has one job per id and answers 409 Conflict for an id it has.
create_load_job(f) == IF serverJob[f] = "none" THEN "created" ELSE "Conflict"

\* BigQueryClient.start_file_load: the job of the load created, or on Conflict
\* what restore_file_load gives for the file.
start_file_load_gcp(f) ==
    IF create_load_job(f) = "Conflict" THEN restore_file_load(f) ELSE "server"

\* spool_job(), lines 83-100, for the worker of tasks[i].
SpoolJobLoad(i) ==
    /\ pc = "pool"
    /\ i \in 1..Len(tasks)
    /\ wstate[i] = "submitted"
    /\ LET f == tasks[i] IN
       \/ \* unsupported file format, unknown table, unsupported write disposition
          /\ fileKind[f] = "rejected"
          /\ wstate' = SetW(i, "got_failed")
          /\ log' = Logged("spool_check", f, "terminal")
          /\ UNCHANGED <<inserts, serverJob, faults>>
       \/ \* Redshift: the insert runs and commits inside start_file_load
          /\ fileKind[f] = "good"
          /\ CLIENT_TYPE = "redshift"
          /\ inserts' = [inserts EXCEPT ![f] = IF @ < MaxInserts THEN @ + 1 ELSE @]
          /\ wstate' = SetW(i, "got_completed")
          /\ log' = Logged("start_file_load", f, "ok")
          /\ UNCHANGED <<serverJob, faults>>
       \/ \* Redshift: DataError, ProgrammingError, IntegrityError: rolled back
          /\ fileKind[f] = "baddata"
          /\ CLIENT_TYPE = "redshift"
          /\ wstate' = SetW(i, "got_failed")
          /\ log' = Logged("start_file_load", f, "terminal")
          /\ UNCHANGED <<inserts, serverJob, faults>>
       \/ \* BigQuery: the load job is created, or 409 Conflict rebinds to it
          /\ fileKind[f] \in {"good", "baddata"}
          /\ CLIENT_TYPE = "gcp"
          /\ IF create_load_job(f) = "created"
             THEN /\ serverJob' = [serverJob EXCEPT ![f] = "running"]
                  /\ inserts' = [inserts EXCEPT ![f] = IF @ < MaxInserts THEN @ + 1 ELSE @]
             ELSE UNCHANGED <<serverJob, inserts>>
          /\ wstate' = SetW(i, CASE start_file_load_gcp(f) # "server" -> "got_failed"
                                 [] create_load_job(f) = "Conflict" -> "got_rebound"
                                 [] OTHER -> "got_server")
          /\ log' = Logged("start_file_load", f, "ok")
          /\ UNCHANGED faults
       \/ \* a transient or unclassified exception, of opening the client or of
          \* start_file_load: no job, the file stays in new/
          /\ CanFault
          /\ faults' = faults + 1
          /\ wstate' = SetW(i, "none")
          /\ log' = Logged("start_file_load", f, "transient")
          /\ UNCHANGED <<inserts, serverJob>>
    /\ UNCHANGED <<pc, load_id, jobs, todo, remaining, tasks>>
    /\ UNCHANGED <<unit, cfgVars, diskVars, procVars>>

\* A mutant of HeldJob: a transient exception makes a failed job, as a terminal one does.
HeldJob_TransientFails(s) ==
    CASE s = "got_completed" -> "completed"
      [] s \in {"got_failed", "none"} -> "failed"
      [] s \in {"got_server", "got_rebound"} -> "server"
      [] OTHER -> "none"

\* A mutant of HeldJob: the handler of a terminal exception makes a completed job.
HeldJob_TerminalCompleted(s) ==
    CASE s \in {"got_completed", "got_failed"} -> "completed"
      [] s \in {"got_server", "got_rebound"} -> "server"
      [] OTHER -> "none"

\* spool_job(), lines 92-100: the job spool_job holds after the try block.
HeldJob(s) ==
    CASE s = "got_completed" -> "completed"
      [] s = "got_failed" -> "failed"
      [] s \in {"got_server", "got_rebound"} -> "server"
      [] OTHER -> "none"

\* A mutant of SpoolStartJob: the job is returned without moving its file.
SpoolStartJob_Skip(fl, p, f) == fl

\* spool_job(), line 101: load_storage.start_job(load_id, job.file_name()).
SpoolStartJob(fl, p, f) == start_job(fl, p, f)

\* spool_job(), lines 101-102: start_job moves the file, the job is returned.
SpoolJobMove(i) ==
    /\ pc = "pool"
    /\ i \in 1..Len(tasks)
    /\ HeldJob(wstate[i]) # "none"
    /\ folder' = SpoolStartJob(folder, load_id, tasks[i])
    /\ jobs' = [jobs EXCEPT ![tasks[i]] = HeldJob(wstate[i])]
    /\ wstate' = SetW(i, "returned")
    /\ UNCHANGED <<pc, load_id, todo, remaining, tasks, log>>
    /\ UNCHANGED <<unit, cfgVars, sentinel, pkg, exception_files, destVars, procVars, faults>>

\* A mutant of JobsCount: only the jobs that were started are counted.
JobsCount_Started(file_count, njobs) == njobs

\* spool_new_jobs(), line 122: the count returned is that of the files taken,
\* with those whose job could not be started.
JobsCount(file_count, njobs) == file_count

\* spool_new_jobs(), lines 120-122 and load(), lines 223-232: starmap returns.
PoolJoin ==
    /\ pc = "pool"
    /\ \A i \in 1..Len(tasks) : wstate[i] \in {"returned", "none"}
    /\ todo' = {f \in Files : jobs[f] # "none"}
    /\ pc' = IF JobsCount(Len(tasks), Cardinality({f \in Files : jobs[f] # "none"})) = 0
             THEN "complete_load" ELSE "poll"
    /\ UNCHANGED <<load_id, jobs, remaining, tasks, wstate, log>>
    /\ UNCHANGED <<unit, cfgVars, diskVars, destVars, procVars, faults>>

\* load(), lines 233-236: complete_load with a client of its own.
CompleteLoad ==
    /\ pc = "complete_load"
    /\ \/ /\ pc' = "archive"
          /\ log' = Logged("complete_load", 0, "ok")
          /\ UNCHANGED <<load_id, jobs, todo, remaining, tasks, wstate, faults>>
       \/ /\ CanFault
          /\ faults' = faults + 1
          /\ Raise("complete_load", 0, "transient")
    /\ UNCHANGED <<unit, cfgVars, diskVars, destVars, procVars>>

\* load(), line 237: archive_load.
ArchiveLoad ==
    /\ pc = "archive"
    /\ pkg' = [pkg EXCEPT ![load_id] = archive_load(load_id)]
    /\ archivedByProc' = archivedByProc + 1
    /\ pc' = "count"
    /\ log' = Logged("archive_load", 0, "ok")
    /\ UNCHANGED <<load_id, jobs, todo, remaining, tasks, wstate>>
    /\ UNCHANGED <<unit, cfgVars, folder, sentinel, exception_files, destVars, load_counter, faults>>

\* load(), lines 239-240: load_counter.inc().
CountLoad ==
    /\ pc = "count"
    /\ load_counter' = load_counter + 1
    /\ pc' = "done"
    /\ UNCHANGED <<load_id, jobs, todo, remaining, tasks, wstate, log>>
    /\ UNCHANGED <<unit, cfgVars, diskVars, destVars, archivedByProc, faults>>

\* A mutant of Status: a server job that is done counts as completed, its
\* error_result is not looked at.
Status_IgnoreErrorResult(f) ==
    CASE jobs[f] = "completed" -> "completed"
      [] jobs[f] = "failed" -> "failed"
      [] jobs[f] = "server" -> IF serverJob[f] = "failed" THEN "completed" ELSE serverJob[f]
      [] OTHER -> "none"

\* A mutant of Status: a job made as completed reports what became of its file.
Status_ByFileKind(f) ==
    CASE jobs[f] = "completed" -> IF fileKind[f] = "good" THEN "completed" ELSE "failed"
      [] jobs[f] = "failed" -> "failed"
      [] jobs[f] = "retry" -> "retry"
      [] jobs[f] = "server" -> serverJob[f]
      [] OTHER -> "none"

\* job.status(): a Redshift or restored-completed job is completed, a job made
\* with status failed is failed, a BigQuery job reports the server's state.
Status(f) ==
    CASE jobs[f] = "completed" -> "completed"
      [] jobs[f] = "failed" -> "failed"
      [] jobs[f] = "retry" -> "retry"
      [] jobs[f] = "server" -> serverJob[f]
      [] OTHER -> "none"

\* job.exception(): the message of a job made with a status, the error of the
\* server-side job; RedshiftInsertLoadJob.exception raises NotImplementedError.
JobException(f) ==
    CASE jobs[f] \in {"failed", "retry"} -> "message"
      [] jobs[f] = "server" -> "error_result"
      [] jobs[f] = "completed" /\ LogOf("start_file_load", f) # {} -> "NotImplementedError"
      [] OTHER -> "None"

\* A mutant of FinalFolder: a job to retry is taken for a failed one.
FinalFolder_RetryFails(status) ==
    CASE status = "completed" -> "completed"
      [] status \in {"failed", "retry"} -> "failed"
      [] OTHER -> "started"

\* A mutant of FinalFolder: a failed job is left where it is.
FinalFolder_FailedStays(status) ==
    CASE status = "completed" -> "completed"
      [] status = "retry" -> "new"
      [] OTHER -> "started"

\* complete_jobs(), lines 163-181: where a job's file goes for a status.
FinalFolder(status) ==
    CASE status = "completed" -> "completed"
      [] status = "failed" -> "failed"
      [] status = "retry" -> "new"
      [] OTHER -> "started"

\* complete_jobs(), lines 158-186: one round of the loop, for the next job.
CompleteJobs ==
    /\ pc = "poll"
    /\ todo # {}
    /\ LET f == Min(todo) IN
       \/ /\ ~(Status(f) \in {"failed", "retry"} /\ JobException(f) = "NotImplementedError")
          /\ todo' = todo \ {f}
          /\ IF Status(f) = "running"
             THEN /\ remaining' = remaining \cup {f}
                  /\ UNCHANGED folder
             ELSE /\ folder' = MoveFile(folder, load_id, f, "started", FinalFolder(Status(f)))
                  /\ UNCHANGED remaining
          /\ exception_files' = IF Status(f) = "failed"
                                THEN fail_job_exception(exception_files, f, JobException(f))
                                ELSE exception_files
          /\ log' = IF Status(f) \in {"failed", "retry"}
                    THEN Logged("exception", f, JobException(f))
                    ELSE log
          /\ UNCHANGED <<pc, load_id, jobs, tasks, wstate, faults>>
       \/ \* job.exception() raises: the exception leaves load()
          /\ Status(f) \in {"failed", "retry"}
          /\ JobException(f) = "NotImplementedError"
          /\ Raise("exception", f, "NotImplementedError")
          /\ UNCHANGED <<folder, exception_files, faults>>
       \/ \* the poll of the server raises: the exception leaves load()
          /\ jobs[f] = "server"
          /\ CanFault
          /\ faults' = faults + 1
          /\ Raise("status", f, "transient")
          /\ UNCHANGED <<folder, exception_files>>
    /\ UNCHANGED <<unit, cfgVars, sentinel, pkg, destVars, procVars>>

\* A mutant of NextJobs: every job of the tick is polled again in the next round.
NextJobs_All(remaining_jobs) == {f \in Files : jobs[f] # "none"}

\* load(), line 247: jobs = remaining_jobs.
NextJobs(remaining_jobs) == remaining_jobs

\* load(), lines 242-251: the round is over; leave the loop or sleep(1) and poll again.
PollRoundEnd ==
    /\ pc = "poll"
    /\ todo = {}
    /\ IF remaining = {}
       THEN /\ pc' = "done"
            /\ UNCHANGED <<todo, remaining>>
       ELSE /\ pc' = "poll"
            /\ todo' = NextJobs(remaining)
            /\ remaining' = {}
    /\ UNCHANGED <<load_id, jobs, tasks, wstate, log>>
    /\ UNCHANGED <<unit, cfgVars, diskVars, destVars, procVars, faults>>

\* A mutant of TRunMetrics: pending_items is the length of the listing made when
\* the tick began (line 196), the package it archived is still counted.
TRunMetrics_FirstListing ==
    IF load_id = 0
    THEN [was_idle |-> TRUE, has_failed |-> FALSE, pending_items |-> 0]
    ELSE [was_idle |-> FALSE, has_failed |-> FALSE,
          pending_items |-> Len(list_loads) + (IF pkg[load_id] # "live" THEN 1 ELSE 0)]

\* load(), lines 199 and 251: the TRunMetrics a tick returns (pc = "done").
TRunMetrics ==
    IF load_id = 0
    THEN [was_idle |-> TRUE, has_failed |-> FALSE, pending_items |-> 0]
    ELSE [was_idle |-> FALSE, has_failed |-> FALSE, pending_items |-> Len(list_loads)]

\* load() has returned or raised; the runner is ready for the next tick.
TickReturn ==
    /\ pc \in {"done", "failed"}
    /\ pc' = "idle"
    /\ load_id' = 0
    /\ jobs' = NoJobs
    /\ todo' = {}
    /\ remaining' = {}
    /\ tasks' = <<>>
    /\ wstate' = <<>>
    /\ log' = <<>>
    /\ UNCHANGED <<unit, cfgVars, diskVars, destVars, procVars, faults>>

\* The BigQuery server finishes a load job.
ServerFinish(f) ==
    /\ serverJob[f] = "running"
    /\ serverJob' = [serverJob EXCEPT ![f] =
                        IF fileKind[f] = "good" THEN "completed" ELSE "failed"]
    /\ UNCHANGED <<unit, cfgVars, diskVars, inserts, tickVars, procVars, faults>>

\* The process is killed inside a tick and started again: what is in memory is
\* lost, the disk and the destination stay.
Crash ==
    /\ pc \notin {"idle", "done", "failed"}
    /\ CanFault
    /\ faults' = faults + 1
    /\ pc' = "idle"
    /\ load_id' = 0
    /\ jobs' = NoJobs
    /\ todo' = {}
    /\ remaining' = {}
    /\ tasks' = <<>>
    /\ wstate' = <<>>
    /\ log' = <<>>
    /\ load_counter' = 0
    /\ archivedByProc' = 0
    /\ UNCHANGED <<unit, cfgVars, diskVars, destVars>>

Tick ==
    \/ TickStart
    \/ InitializeStorage
    \/ UpdateStorageSchema
    \/ CommitSchemaUpdate
    \/ RetrieveJobs
    \/ RestoreFileLoad
    \/ SpoolNewJobs
    \/ \E i \in 1..MaxWorkers : SpoolJobLoad(i)
    \/ \E i \in 1..MaxWorkers : SpoolJobMove(i)
    \/ PoolJoin
    \/ CompleteLoad
    \/ ArchiveLoad
    \/ CountLoad
    \/ CompleteJobs
    \/ PollRoundEnd
    \/ TickReturn

Server == \E f \in Files : ServerFinish(f)

Next == Tick \/ Server \/ Crash

Spec == Init /\ [][Next]_vars

\* The runner keeps calling load() and every call runs to its end; the server
\* finishes every load job it was given.  Kills are not fair.
FairSpec == Spec /\ WF_vars(Tick) /\ WF_vars(Server)

\* The loader as Pipeline._configure_load configures it (DELETE_COMPLETED_JOBS),
\* every package with a schema update that the destination accepts.
InitAccepted ==
    /\ Init
    /\ DELETE_COMPLETED_JOBS
    /\ \A p \in Loads : schemaUpdate[p] = "ok"

AcceptedFairSpec == InitAccepted /\ [][Next]_vars /\ WF_vars(Tick) /\ WF_vars(Server)

\* ------------------------------------------------------------ the signal
\* load(), lines 248-249: sleep(1) raises on the signal; the exception leaves
\* load().  unit keeps what the loader held at that moment: the package, the
\* jobs still running, the folders and the loads made.
SleepRaises ==
    /\ pc = "poll"
    /\ todo = {}
    /\ remaining # {}
    /\ unit = NoUnit
    /\ unit' = [fn |-> "signal", load_id |-> load_id, running |-> remaining,
                folder |-> folder, inserts |-> inserts]
    /\ Raise("sleep", 0, "signal")
    /\ UNCHANGED <<cfgVars, diskVars, destVars, procVars, faults>>

SignalNext == Next \/ SleepRaises

SignalSpec == InitAccepted /\ [][SignalNext]_vars

\* ------------------------------------------------------------ the poll loop alone
\* load() at line 242, about to poll the jobs of a package: some of its files are
\* in started/, each with a job of any status, as a client such as the dummy
\* client (FAIL_PROB, RETRY_PROB, COMPLETED_PROB) makes them; the others are in new/.
InitPoll ==
    /\ CLIENT_TYPE = "dummy"
    /\ WORKERS \in 1..MaxWorkers
    /\ DELETE_COMPLETED_JOBS \in BOOLEAN
    /\ fileKind \in [Files -> {"good", "baddata"}]
    /\ schemaUpdate = [p \in Loads |-> "none"]
    /\ load_id \in Loads
    /\ todo \in (SUBSET FilesOf(load_id)) \ {{}}
    /\ jobs \in {j \in [Files -> {"none", "completed", "failed", "retry", "server"}] :
                    \A f \in Files : (j[f] # "none") <=> (f \in todo)}
    /\ folder = [p \in Loads |-> [d \in Folders |->
                    CASE d = "new" -> FilesOf(p) \ (IF p = load_id THEN todo ELSE {})
                      [] d = "started" -> IF p = load_id THEN todo ELSE {}
                      [] OTHER -> {}]]
    /\ sentinel = [p \in Loads |-> FALSE]
    /\ pkg = [p \in Loads |-> "live"]
    /\ exception_files = {}
    /\ inserts = [f \in Files |-> 0]
    /\ serverJob = [f \in Files |-> IF jobs[f] = "server" THEN "running" ELSE "none"]
    /\ pc = "poll"
    /\ remaining = {}
    /\ tasks = SortedSeq(todo)
    /\ wstate = [i \in 1..Cardinality(todo) |-> "returned"]
    /\ log = <<>>
    /\ load_counter = 0
    /\ archivedByProc = 0
    /\ faults = 0
    /\ unit = NoUnit

PollNext == CompleteJobs \/ PollRoundEnd \/ Server

PollSpec == InitPoll /\ [][PollNext]_vars

\* The loop runs on and every load job on the server ends.
PollFairSpec == PollSpec /\ WF_vars(CompleteJobs \/ PollRoundEnd) /\ WF_vars(Server)

\* ------------------------------------------------------------ a file that never loads
\* The file of the first package whose load fails on every attempt.
StuckFile == 1

\* A mutant of StuckJob: the attempt that cannot succeed ends in a failed job.
StuckJob_GivesUp(kind) ==
    CASE kind = "good" -> "completed"
      [] OTHER -> "failed"

\* What spool_job holds for a file whose start_file_load always raises a
\* transient or unclassified exception (lines 97-100: None), or whose client,
\* like the dummy client, hands back a job made with a status.
StuckJob(kind) ==
    CASE kind = "transient" -> "none"
      [] kind = "retry" -> "retry"
      [] kind = "good" -> "completed"
      [] OTHER -> "failed"

\* spool_job(), lines 80-102, for the worker of tasks[i], when the file always
\* fails transiently or the client makes jobs with a status.
SpoolJobStuck(i) ==
    /\ pc = "pool"
    /\ i \in 1..Len(tasks)
    /\ wstate[i] = "submitted"
    /\ fileKind[tasks[i]] # "rejected"
    /\ fileKind[tasks[i]] \in {"transient", "retry"} \/ CLIENT_TYPE = "dummy"
    /\ LET f == tasks[i]
           job == StuckJob(fileKind[f]) IN
       IF job = "none"
       THEN /\ wstate' = SetW(i, "none")
            /\ log' = Logged("start_file_load", f, "transient")
            /\ UNCHANGED <<folder, jobs>>
       ELSE /\ wstate' = SetW(i, "returned")
            /\ log' = Logged("start_file_load", f, "ok")
            /\ folder' = SpoolStartJob(folder, load_id, f)
            /\ jobs' = [jobs EXCEPT ![f] = job]
    /\ UNCHANGED <<pc, load_id, todo, remaining, tasks>>
    /\ UNCHANGED <<unit, cfgVars, sentinel, pkg, exception_files, destVars, procVars, faults>>

\* The loader with a first package one of whose files may fail on every attempt:
\* start_file_load always raises ("transient"), or the job reports retry on
\* every poll ("retry", a client that makes jobs with a status).
InitStuck ==
    /\ CLIENT_TYPE \in {"redshift", "gcp", "dummy"}
    /\ WORKERS \in 1..MaxWorkers
    /\ DELETE_COMPLETED_JOBS \in BOOLEAN
    /\ fileKind \in {k \in [Files -> {"good", "baddata", "transient", "retry"}] :
                        /\ k[StuckFile] \in {"good", "transient", "retry"}
                        /\ \A f \in Files \ {StuckFile} : k[f] \in {"good", "baddata"}
                        /\ k[StuckFile] = "retry" => CLIENT_TYPE = "dummy"}
    /\ schemaUpdate \in [Loads -> {"none", "ok"}]
    /\ folder = [p \in Loads |-> [d \in Folders |-> IF d = "new" THEN FilesOf(p) ELSE {}]]
    /\ sentinel = [p \in Loads |-> schemaUpdate[p] # "none"]
    /\ pkg = [p \in Loads |-> "live"]
    /\ exception_files = {}
    /\ inserts = [f \in Files |-> 0]
    /\ serverJob = [f \in Files |-> "none"]
    /\ pc = "idle"
    /\ load_id = 0
    /\ jobs = NoJobs
    /\ todo = {}
    /\ remaining = {}
    /\ tasks = <<>>
    /\ wstate = <<>>
    /\ log = <<>>
    /\ load_counter = 0
    /\ archivedByProc = 0
    /\ faults = 0
    /\ unit = NoUnit

StuckTick == Tick \/ \E i \in 1..MaxWorkers : SpoolJobStuck(i)

StuckNext == StuckTick \/ Server

\* The runner keeps calling load(); the process is not killed.
StuckSpec == InitStuck /\ [][StuckNext]_vars /\ WF_vars(StuckTick) /\ WF_vars(Server)

\* ------------------------------------------------------------ single calls
\* The loader at rest while a single call is looked at.
LoaderAtRest ==
    /\ CLIENT_TYPE = "redshift"
    /\ WORKERS = 1
    /\ DELETE_COMPLETED_JOBS = TRUE
    /\ fileKind = [f \in Files |-> "good"]
    /\ schemaUpdate = [p \in Loads |-> "none"]
    /\ folder = [p \in Loads |-> [d \in Folders |-> IF d = "new" THEN FilesOf(p) ELSE {}]]
    /\ sentinel = [p \in Loads |-> FALSE]
    /\ pkg = [p \in Loads |-> "live"]
    /\ exception_files = {}
    /\ inserts = [f \in Files |-> 0]
    /\ serverJob = [f \in Files |-> "none"]
    /\ pc = "idle"
    /\ load_id = 0
    /\ jobs = NoJobs
    /\ todo = {}
    /\ remaining = {}
    /\ tasks = <<>>
    /\ wstate = <<>>
    /\ log = <<>>
    /\ load_counter = 0
    /\ archivedByProc = 0
    /\ faults = 0

WriteDispositions == {"append", "replace", "skip", "merge", "upsert"}

\* spool_job(file_path, load_id, schema) for one file: the client, whether it
\* opens, the extension of the file, whether the schema has the file's table,
\* the write disposition of the table ("absent" for a child table without its
\* own) and of its root, and what start_file_load does if it is called;
\* wrote_wd: the call has set "write_disposition" in the table it got from
\* the schema.
SpoolJobCalls ==
    [fn : {"spool_job"}, client : {"redshift", "gcp"}, opens : BOOLEAN,
     ext : {"jsonl", "insert_values"}, table_known : BOOLEAN,
     own_wd : WriteDispositions \cup {"absent"}, root_wd : WriteDispositions,
     start : {"job", "terminal", "transient"},
     pc : {"call"}, called_start : {FALSE}, job : {"none"}, at : {"new"},
     wrote_wd : {FALSE}]

\* capabilities()["supported_loader_file_formats"] of the clients.
supported_loader_file_formats(client) ==
    IF client = "redshift" THEN {"insert_values"} ELSE {"jsonl"}

\* A mutant of get_load_table: a table without a write disposition is taken as
\* it is, the root's is not looked up.
get_load_table_NoRoot(u) ==
    IF ~u.table_known THEN "LoadUnknownTableException"
    ELSE IF u.own_wd = "absent" THEN "append" ELSE u.own_wd

\* get_load_table(), lines 69-77: the write disposition of the table, that of
\* its root (schema.get_write_disposition) if it has none of its own; an
\* unknown table raises LoadUnknownTableException.
get_load_table(u) ==
    IF ~u.table_known THEN "LoadUnknownTableException"
    ELSE IF u.own_wd = "absent" THEN u.root_wd ELSE u.own_wd

\* get_load_table(), lines 71-74: schema.get_table gives the table the schema
\* holds, and a table without "write_disposition" gets the key assigned.
get_load_table_assigns(u) ==
    /\ u.opens
    /\ u.ext \in supported_loader_file_formats(u.client)
    /\ u.table_known
    /\ u.own_wd = "absent"

\* The write disposition in the table definition of the in-memory schema.
SchemaTableWriteDisposition(u) == IF u.wrote_wd THEN u.root_wd ELSE u.own_wd

\* spool_job(), lines 83-100: whether start_file_load was called and the job
\* held after the try block ("none": spool_job returns None).
spool_job(u) ==
    IF ~u.opens
    THEN [called_start |-> FALSE, job |-> "none"]
    ELSE IF u.ext \notin supported_loader_file_formats(u.client)
    THEN [called_start |-> FALSE, job |-> "failed"]    \* LoadClientUnsupportedFileFormats
    ELSE IF get_load_table(u) = "LoadUnknownTableException"
    THEN [called_start |-> FALSE, job |-> "failed"]
    ELSE IF get_load_table(u) \notin {"append", "replace"}
    THEN [called_start |-> FALSE, job |-> "failed"]    \* LoadClientUnsupportedWriteDisposition
    ELSE [called_start |-> TRUE,
          job |-> CASE u.start = "job" -> "job"
                    [] u.start = "terminal" -> "failed"
                    [] OTHER -> "none"]

\* spool_job(), lines 83-102: the call; start_job moves the file if a job is held.
SpoolJobCall ==
    /\ unit.fn = "spool_job"
    /\ unit.pc = "call"
    /\ unit' = [unit EXCEPT !.pc = "returned",
                            !.called_start = spool_job(unit).called_start,
                            !.job = spool_job(unit).job,
                            !.wrote_wd = get_load_table_assigns(unit),
                            !.at = IF spool_job(unit).job = "none" THEN "new" ELSE "started"]
    /\ UNCHANGED loaderVars

\* complete_jobs(), lines 161-181, for the job made with status failed.
SpoolJobPoll ==
    /\ unit.fn = "spool_job"
    /\ unit.pc = "returned"
    /\ unit.job = "failed"
    /\ unit' = [unit EXCEPT !.pc = "polled", !.at = FinalFolder("failed")]
    /\ UNCHANGED loaderVars

\* The characters of a file name: a letter, the dot, the underscore.
NameChars == {"a", ".", "_"}

RECURSIVE SeqsUpTo(_, _)
\* The sequences over S of length 1..n.
SeqsUpTo(S, n) ==
    IF n = 0 THEN {}
    ELSE SeqsUpTo(S, n - 1) \cup [1..n -> S]

FileNames == SeqsUpTo(NameChars, MaxNameLen)

\* A job file started and later restored: its name and its package.
JobIdCalls ==
    [fn : {"job_id"}, name : FileNames, load : {"1", "1.5"},
     pc : {"call"}, start_id : {<<>>}, restore_id : {<<>>}]

\* The path start_file_load is given: storage._make_path of the file in new/.
StartPath(u) == <<"", "storage", "loading", u.load, "new", u.name>>

\* The path restore_file_load is given: the file as list_started_jobs lists it.
RestorePath(u) == <<"loading", u.load, "started", u.name>>

\* Path(file_path).name
PathName(path) == path[Len(path)]

\* str.replace(".", "_")
ReplaceDots(str) == [i \in 1..Len(str) |-> IF str[i] = "." THEN "_" ELSE str[i]]

\* A mutant of get_job_id_from_file_path: the folder of the file is part of the id.
get_job_id_from_file_path_WithFolder(file_path) ==
    <<file_path[Len(file_path) - 1]>> \o ReplaceDots(PathName(file_path))

\* A mutant of get_job_id_from_file_path: the dots are dropped, not replaced.
get_job_id_from_file_path_DropDots(file_path) ==
    SelectSeq(PathName(file_path), LAMBDA c : c # ".")

\* BigQueryClient._get_job_id_from_file_path, lines 307-309.
get_job_id_from_file_path(file_path) == ReplaceDots(PathName(file_path))

\* _create_load_job (line 285) and _retrieve_load_job (line 304) compute the id.
JobIdCall ==
    /\ unit.fn = "job_id"
    /\ unit.pc = "call"
    /\ unit' = [unit EXCEPT !.pc = "returned",
                            !.start_id = get_job_id_from_file_path(StartPath(unit)),
                            !.restore_id = get_job_id_from_file_path(RestorePath(unit))]
    /\ UNCHANGED loaderVars

\* The rows of a table: how many it had before the load, how many of the file.
Rows(prev, file) == [prev |-> prev, file |-> file]

\* RedshiftInsertLoadJob._insert for one file: the write disposition, the rows
\* the table has, the rows of the file, whether the file is too big, the
\* statement that raises, if any, and whether it raises because the connection
\* is lost.  table is what is committed, work what the open transaction sees.
InsertCalls ==
    {[fn |-> "insert", wd |-> wd, prev |-> n, rows |-> m, too_big |-> big,
      fail_at |-> fa[1], lost |-> fa[2],
      pc |-> "call", sql |-> <<>>, in_tx |-> FALSE, recovery |-> "none",
      table |-> Rows(n, 0), work |-> Rows(n, 0)] :
        wd \in {"append", "replace"}, n \in 0..MaxRows, m \in 1..MaxRows,
        big \in BOOLEAN,
        fa \in {<<"none", FALSE>>} \cup ({"BEGIN", "DELETE", "INSERT", "COMMIT"} \X BOOLEAN)}

\* A mutant of insert_sql: the statements are sent without BEGIN and COMMIT.
insert_sql_NoTransaction(wd) ==
    (IF wd = "replace" THEN <<"DELETE">> ELSE <<>>) \o <<"INSERT">>

\* _insert(), lines 165-172: the statements composed for a write disposition.
insert_sql(wd) ==
    <<"BEGIN">> \o (IF wd = "replace" THEN <<"DELETE">> ELSE <<>>) \o <<"INSERT", "COMMIT">>

\* _insert(), lines 159-173: the size check, then execute_sql of the statements.
InsertStart ==
    /\ unit.fn = "insert"
    /\ unit.pc = "call"
    /\ unit' = IF unit.too_big
               THEN [unit EXCEPT !.pc = "raised"]          \* LoadFileTooBig
               ELSE [unit EXCEPT !.pc = "execute", !.sql = insert_sql(unit.wd)]
    /\ UNCHANGED loaderVars

\* What a statement does to the rows it sees.
Apply(stmt, rows, u) ==
    CASE stmt = "DELETE" -> Rows(0, 0)
      [] stmt = "INSERT" -> [rows EXCEPT !.file = @ + u.rows]
      [] OTHER -> rows

\* The server runs the next statement of the string.  The connection is in
\* autocommit (open_connection, line 64): outside a transaction a statement is
\* committed as it is run.
ExecuteStatement ==
    /\ unit.fn = "insert"
    /\ unit.pc = "execute"
    /\ unit.sql # <<>>
    /\ Head(unit.sql) # unit.fail_at
    /\ LET stmt == Head(unit.sql)
           u == [unit EXCEPT !.sql = Tail(unit.sql)]
       IN unit' = CASE stmt = "BEGIN" -> [u EXCEPT !.in_tx = TRUE, !.work = unit.table]
                    [] stmt = "COMMIT" -> [u EXCEPT !.in_tx = FALSE, !.table = unit.work]
                    [] unit.in_tx -> [u EXCEPT !.work = Apply(stmt, unit.work, unit)]
                    [] OTHER -> [u EXCEPT !.table = Apply(stmt, unit.table, unit),
                                          !.work = Apply(stmt, unit.table, unit)]
    /\ UNCHANGED loaderVars

\* execute_sql(), lines 108-115: the statement raises; rollback and reset, or
\* a new connection when these raise on a lost connection, end the open
\* transaction; the error is raised again.
ExecuteRaises ==
    /\ unit.fn = "insert"
    /\ unit.pc = "execute"
    /\ unit.sql # <<>>
    /\ Head(unit.sql) = unit.fail_at
    /\ unit' = [unit EXCEPT !.pc = "raised", !.in_tx = FALSE, !.work = unit.table,
                            !.recovery = IF unit.lost THEN "reconnect" ELSE "rollback"]
    /\ UNCHANGED loaderVars

\* execute_sql() returns: start_file_load has its job.
InsertReturn ==
    /\ unit.fn = "insert"
    /\ unit.pc = "execute"
    /\ unit.sql = <<>>
    /\ unit' = [unit EXCEPT !.pc = "returned"]
    /\ UNCHANGED loaderVars

\* Phrases a server message may hold: the three start_file_load names, and
\* one it does not name.
Phrases ==
    {"Cannot insert a NULL value into column", "Numeric data overflow",
     "Precision exceeds maximum", "canceling statement due to statement timeout"}

\* The pgerror of an error raised without a server message (None in Python).
NoMessage == {"None"}

\* psycopg2 errors start_file_load catches.
DatabaseErrors ==
    {"OperationalError", "InternalError", "DataError", "ProgrammingError", "IntegrityError"}

\* RedshiftClient.start_file_load whose insert raises a psycopg2 error: its
\* class and its pgerror, None or a message, taken as the phrases it holds.
StartFileLoadCalls ==
    [fn : {"start_file_load"}, ex : DatabaseErrors, pgerror : {NoMessage} \cup SUBSET Phrases,
     pc : {"call"}, raised : {"none"}, job : {"none"}, at : {"new"}]

\* Python's truth value of a str.
Truthy(str) == str # ""

\* start_file_load(), lines 194-208.  Line 204 tests the phrase itself, not
\* whether the message holds it.
start_file_load_redshift(ex, pgerror) ==
    IF ex \in {"OperationalError", "InternalError"}
    THEN IF pgerror # NoMessage
         THEN CASE "Cannot insert a NULL value into column" \in pgerror -> "terminal"
                [] "Numeric data overflow" \in pgerror -> "terminal"
                [] Truthy("Precision exceeds maximum") -> "terminal"
                [] OTHER -> "transient"
         ELSE "transient"
    ELSE "terminal"

\* spool_job(), lines 92-101: start_file_load raises; a terminal error makes a
\* failed job and the file goes to started/, a transient one returns no job.
StartFileLoadRaises ==
    /\ unit.fn = "start_file_load"
    /\ unit.pc = "call"
    /\ LET raised == start_file_load_redshift(unit.ex, unit.pgerror)
       IN unit' = IF raised = "terminal"
                  THEN [unit EXCEPT !.pc = "spooled", !.raised = raised,
                                    !.job = "failed", !.at = "started"]
                  ELSE [unit EXCEPT !.pc = "spooled", !.raised = raised, !.job = "None"]
    /\ UNCHANGED loaderVars

\* complete_jobs(), lines 167-171: the failed job's file goes to failed/.
StartFileLoadComplete ==
    /\ unit.fn = "start_file_load"
    /\ unit.pc = "spooled"
    /\ unit.job = "failed"
    /\ unit' = [unit EXCEPT !.pc = "completed", !.at = "failed"]
    /\ UNCHANGED loaderVars

\* The files of one package, in the order list_new_jobs gives them, and the
\* tables they may be for.
PackageFiles == 1..NumFiles
Tables == {"t1", "t2"}

\* The rows a table had before the package is loaded.
Previous == 0

\* A package to load: the table of each file, the write disposition of each
\* table, whether the destination takes each file; the files not loaded yet,
\* the order in which files were loaded, the files whose rows each table holds
\* and the folder of each file.
SpoolNewJobsCalls ==
    [fn : {"spool_new_jobs"}, table_of : [PackageFiles -> Tables],
     wd : [Tables -> {"append", "replace"}], kind : [PackageFiles -> {"good", "baddata"}],
     pending : {PackageFiles}, order : {<<>>},
     content : {[t \in Tables |-> {Previous}]}, at : {[f \in PackageFiles |-> "new"]}]

\* The tables after file f is loaded: _insert(), lines 165-172, and
\* _create_load_job(), line 284: append adds the rows of the file, replace
\* (DELETE FROM, WRITE_TRUNCATE) leaves them alone; a file the destination
\* does not take changes nothing.
LoadFile(u, content, f) ==
    IF u.kind[f] # "good" THEN content
    ELSE [content EXCEPT ![u.table_of[f]] =
             IF u.wd[u.table_of[f]] = "append" THEN @ \cup {f} ELSE {f}]

\* spool_new_jobs(), lines 111-120, over the ticks of a package: the pool runs
\* spool_job for the files side by side, so any file not loaded yet may be the
\* next whose load takes effect; complete_jobs then moves it.
SpoolNewJobsLoad ==
    /\ unit.fn = "spool_new_jobs"
    /\ \E f \in unit.pending :
          unit' = [unit EXCEPT !.pending = @ \ {f},
                               !.order = Append(@, f),
                               !.content = LoadFile(unit, @, f),
                               !.at[f] = IF unit.kind[f] = "good" THEN "completed" ELSE "failed"]
    /\ UNCHANGED loaderVars

\* common/schema/typing.py, line 15.
COLUMN_HINTS == {"partition", "cluster", "primary_key", "foreign_key", "sort", "unique"}

\* redshift/client.py, lines 41-46: the hints Redshift has an attribute for.
HINT_TO_REDSHIFT_ATTR == {"cluster", "sort"}

\* A new column, taken as the hints it has set to true.
HintSets == {h \in SUBSET COLUMN_HINTS : Cardinality(h) <= MaxHints}

\* The new local columns of one table: none, one, a plain one and another, a
\* partition column and another.
NewColumnSets ==
    {{}} \cup {{h} : h \in HintSets} \cup {{{}, h} : h \in HintSets}
         \cup {{{"partition"}, h} : h \in HintSets}

\* The tables of the schema, in the order _build_schema_update_sql visits them.
SchemaTables == 1..2

\* update_storage_schema of a client for a schema: for each table whether it
\* exists at the destination and its new columns; the statements built so far,
\* the statements executed.
SchemaUpdateCalls ==
    [fn : {"update_storage_schema"}, client : {"redshift", "gcp"},
     exists : [SchemaTables -> BOOLEAN], new_columns : [SchemaTables -> NewColumnSets],
     pc : {"call"}, table : {1}, sql_updates : {<<>>}, executed : {<<>>}]

\* A statement: CREATE or ALTER, and the hints written into it.
Sql(kind, hints) == [kind |-> kind, hints |-> hints]
NoSql == Sql("None", {})
WillNotUpdate == Sql("SchemaWillNotUpdate", {})

\* A mutant of _get_table_update_sql_redshift: no check of the hints.
get_table_update_sql_redshift_NoCheck(new_columns, exists) ==
    IF new_columns = {} THEN NoSql
    ELSE Sql(IF exists THEN "ALTER" ELSE "CREATE",
             UNION {c \cap HINT_TO_REDSHIFT_ATTR : c \in new_columns})

\* RedshiftClient._get_table_update_sql, lines 226-251; _get_column_def_sql
\* writes the attributes of the hints, lines 253-256.
get_table_update_sql_redshift(new_columns, exists) ==
    IF new_columns = {} THEN NoSql
    ELSE IF exists /\ \E hint \in COLUMN_HINTS : \E c \in new_columns : hint \in c
         THEN WillNotUpdate
         ELSE Sql(IF exists THEN "ALTER" ELSE "CREATE",
                  UNION {c \cap HINT_TO_REDSHIFT_ATTR : c \in new_columns})

\* BigQueryClient._get_table_update_sql, lines 220-253; _get_column_def_sql
\* writes no hint, lines 255-257.
get_table_update_sql_gcp(new_columns, exists) ==
    LET cluster_list == {c \in new_columns : "cluster" \in c}
        partition_list == {c \in new_columns : "partition" \in c}
    IN IF new_columns = {} THEN NoSql
       ELSE IF partition_list # {} /\ (exists \/ Cardinality(partition_list) > 1)
            THEN WillNotUpdate
            ELSE IF cluster_list # {} /\ exists
                 THEN WillNotUpdate
                 ELSE Sql(IF exists THEN "ALTER" ELSE "CREATE",
                          (IF partition_list # {} THEN {"partition"} ELSE {})
                             \cup (IF cluster_list # {} THEN {"cluster"} ELSE {}))

get_table_update_sql(client, new_columns, exists) ==
    IF client = "redshift" THEN get_table_update_sql_redshift(new_columns, exists)
    ELSE get_table_update_sql_gcp(new_columns, exists)

\* _build_schema_update_sql, one round of its loop: the statement of the next
\* table is appended, or SchemaWillNotUpdate leaves the loop and the call.
BuildSchemaUpdateSql ==
    /\ unit.fn = "update_storage_schema"
    /\ unit.pc = "call"
    /\ unit.table \in SchemaTables
    /\ LET t == unit.table
           sql == get_table_update_sql(unit.client, unit.new_columns[t], unit.exists[t])
       IN unit' = CASE sql = WillNotUpdate -> [unit EXCEPT !.pc = "raised"]
                    [] sql = NoSql -> [unit EXCEPT !.table = t + 1]
                    [] OTHER -> [unit EXCEPT !.table = t + 1,
                                             !.sql_updates = Append(@, sql)]
    /\ UNCHANGED loaderVars

\* update_storage_schema: the statements built are executed.
ExecuteSchemaUpdate ==
    /\ unit.fn = "update_storage_schema"
    /\ unit.pc = "call"
    /\ unit.table \notin SchemaTables
    /\ unit' = [unit EXCEPT !.pc = "returned", !.executed = unit.sql_updates]
    /\ UNCHANGED loaderVars

\* spool_new_jobs for a package with the files new in new/ and CONFIG.WORKERS
\* workers: param_chunk, where each worker is in spool_job, the connection its
\* client has, the connections it has used, the connections open, the
\* number of connections made so far, the job each worker returned ("client":
\* the LoadJob start_file_load made, which holds the client's connection or the
\* server job got through it; "status": a job made by make_job_with_status;
\* "none": None) and the workers whose job complete_jobs has polled.
ParamChunk(new, workers) == Take(SortedSeq(new), workers)

PoolCalls ==
    {[fn |-> "pool", param_chunk |-> ParamChunk(new, workers),
      wpc |-> [i \in 1..Len(ParamChunk(new, workers)) |-> "submitted"],
      conn |-> [i \in 1..Len(ParamChunk(new, workers)) |-> 0],
      used |-> [i \in 1..Len(ParamChunk(new, workers)) |-> {}],
      open |-> {}, made |-> 0,
      job |-> [i \in 1..Len(ParamChunk(new, workers)) |-> "none"], polled |-> {}] :
        new \in SUBSET PackageFiles, workers \in 1..MaxWorkers}

\* A mutant of load_client_cls: the workers get the client of the process.
load_client_cls_Shared(made) == 1

\* load_client_cls(schema), spool_job line 84: a client of its own, whose
\* open_connection makes a connection (psycopg2.connect, bigquery.Client).
load_client_cls(made) == made + 1

\* spool_job, line 84: the with statement is entered; the connection is made,
\* or making it raises and the worker returns None.
PoolEnter(i) ==
    /\ unit.wpc[i] = "submitted"
    /\ \/ unit' = [unit EXCEPT !.wpc[i] = "entered",
                               !.conn[i] = load_client_cls(unit.made),
                               !.used[i] = @ \cup {load_client_cls(unit.made)},
                               !.open = @ \cup {load_client_cls(unit.made)},
                               !.made = @ + 1]
       \/ unit' = [unit EXCEPT !.wpc[i] = "exited"]

\* spool_job, lines 85-92: the checks and start_file_load, which return or
\* raise; execute_sql may have closed the connection and opened another
\* (redshift/client.py, lines 113-114) before it raises.
PoolBody(i) ==
    /\ unit.wpc[i] = "entered"
    /\ \/ \E j \in {"client", "status", "none"} :
             unit' = [unit EXCEPT !.wpc[i] = "leaving", !.job[i] = j]
       \/ \E j \in {"status", "none"} :
             unit' = [unit EXCEPT !.wpc[i] = "leaving", !.job[i] = j,
                                  !.conn[i] = load_client_cls(unit.made),
                                  !.used[i] = @ \cup {load_client_cls(unit.made)},
                                  !.open = (@ \ {unit.conn[i]}) \cup {load_client_cls(unit.made)},
                                  !.made = @ + 1]

\* spool_job, line 84: the with statement is left, by return or by exception;
\* the client closes its connection.
PoolExit(i) ==
    /\ unit.wpc[i] = "leaving"
    /\ unit' = [unit EXCEPT !.wpc[i] = "exited", !.open = @ \ {unit.conn[i]}]

\* spool_job, lines 93-102: the handlers, start_job, the return.
PoolReturn(i) ==
    /\ unit.wpc[i] = "exited"
    /\ unit' = [unit EXCEPT !.wpc[i] = "returned"]

\* load(), lines 241-243 and complete_jobs(), lines 158-161: starmap has
\* returned; job.status() is called on the job worker i returned.
PoolPoll(i) ==
    /\ \A j \in 1..Len(unit.param_chunk) : unit.wpc[j] = "returned"
    /\ unit.job[i] # "none"
    /\ i \notin unit.polled
    /\ unit' = [unit EXCEPT !.polled = @ \cup {i}]

\* pool.starmap(spool_job, param_chunk): the workers run side by side; then
\* the jobs they returned are polled.
PoolWorker ==
    /\ unit.fn = "pool"
    /\ \E i \in 1..Len(unit.param_chunk) :
          PoolEnter(i) \/ PoolBody(i) \/ PoolExit(i) \/ PoolReturn(i) \/ PoolPoll(i)
    /\ UNCHANGED loaderVars

\* ---------------------------------------------------------------------------
\* Pipeline.normalize (pipeline.py:136-147), one call: interactive is
\* is_interactive(), valid whether _verify_normalize_instance passes, CONFIG
\* the normalize configuration before the call.
\* ---------------------------------------------------------------------------
NormalizeCalls ==
    { [fn |-> "normalize", interactive |-> i, workers |-> w, max_events_in_chunk |-> m,
       valid |-> v, run_fails |-> f,
       CONFIG |-> [WORKERS |-> 1, MAX_EVENTS_IN_CHUNK |-> 1, POOL_TYPE |-> "thread"],
       pc |-> "call", verified |-> FALSE, pooled |-> FALSE, result |-> "none"] :
        i \in BOOLEAN, w \in 0 .. MaxWorkers, m \in 1 .. MaxItems, v \in BOOLEAN,
        f \in BOOLEAN }

normalize_call_VerifyFirst(u) ==
    IF ~u.valid
    THEN [u EXCEPT !.pc = "done", !.verified = TRUE,
                   !.result = "InvalidPipelineContextException"]
    ELSE [u EXCEPT !.pc = "done", !.verified = TRUE, !.pooled = TRUE,
                   !.CONFIG = [WORKERS |-> u.workers,
                               MAX_EVENTS_IN_CHUNK |-> u.max_events_in_chunk,
                               POOL_TYPE |-> IF u.workers = 1 THEN "thread"
                                             ELSE "process"],
                   !.result = IF u.interactive /\ u.workers > 1
                              THEN "NotImplementedError"
                              ELSE IF u.run_fails THEN "PipelineStepFailed"
                              ELSE "returned"]

normalize_call(u) ==
    IF u.interactive /\ u.workers > 1
    THEN [u EXCEPT !.pc = "done", !.result = "NotImplementedError"]
    ELSE IF ~u.valid
    THEN [u EXCEPT !.pc = "done", !.verified = TRUE,
                   !.result = "InvalidPipelineContextException"]
    ELSE [u EXCEPT !.pc = "done", !.verified = TRUE, !.pooled = TRUE,
                   !.CONFIG = [WORKERS |-> u.workers,
                               MAX_EVENTS_IN_CHUNK |-> u.max_events_in_chunk,
                               POOL_TYPE |-> IF u.workers = 1 THEN "thread"
                                             ELSE "process"],
                   !.result = IF u.run_fails THEN "PipelineStepFailed" ELSE "returned"]

NormalizeCall ==
    /\ unit.fn = "normalize" /\ unit.pc = "call"
    /\ unit' = normalize_call(unit)
    /\ UNCHANGED loaderVars

\* ---------------------------------------------------------------------------
\* The names of extracted files (NormalizeStorage.build_extracted_file_name and
\* its parser, written as the file-name grammar
\* <schema>.<stem>.<count>.<load_id>.<ext> gives them) and
\* ExtractorStorageBase.commit_events (extractor_storage.py:26-41).  A name is
\* a sequence of characters; "json" and a load id stand for one character each.
\* ---------------------------------------------------------------------------
IdentChars == {"a", "_"}

\* schema names and stems: no dot, the schema name possibly empty
Idents == {<<>>} \cup SeqsUpTo(IdentChars, 2)

LoadIdents == {<<"x">>, <<"y">>}

\* str(count) and int(str) for counts of one digit
Digits == <<"0", "1", "2", "3", "4", "5", "6", "7", "8", "9">>

Str(count) == <<Digits[count + 1]>>

ParseInt(str) == (CHOOSE i \in 1 .. Len(Digits) : Digits[i] = str[1]) - 1

RECURSIVE Split(_, _)
\* str.split(sep)
Split(str, sep) ==
    IF \A i \in 1 .. Len(str) : str[i] # sep
    THEN <<str>>
    ELSE LET i == CHOOSE k \in 1 .. Len(str) :
                      str[k] = sep /\ \A j \in 1 .. k - 1 : str[j] # sep
         IN  <<SubSeq(str, 1, i - 1)>> \o Split(SubSeq(str, i + 1, Len(str)), sep)

build_extracted_file_name(schema_name, stem, count, id) ==
    schema_name \o <<".">> \o stem \o <<".">> \o Str(count) \o <<".">> \o id
        \o <<".", "json">>

\* (count, load_id, schema_name) of a file name
parse_extracted_file_name(file_name) ==
    LET parts == Split(file_name, ".") IN
    <<ParseInt(parts[Len(parts) - 2]), parts[Len(parts) - 1], parts[1]>>

\* normalize_schema_name: a schema name cannot contain underscores
\* (extractor_storage.py:27)
normalize_schema_name(name) == SelectSeq(name, LAMBDA c : c # "_")

CommitEventsCalls ==
    { [fn |-> "commit_events", schema_name |-> s, dest_file_stem |-> t,
       no_processed_events |-> n, load |-> l, with_delete |-> TRUE,
       extractor |-> {l}, extracted |-> {}, pc |-> "call", result |-> <<>>] :
        s \in Idents, t \in Idents \ {<<>>}, n \in 0 .. MaxItems, l \in LoadIdents }

commit_events_DeleteFirst(u) ==
    LET dest_name == build_extracted_file_name(
                         u.schema_name, u.dest_file_stem, u.no_processed_events, u.load)
        deleted == [u EXCEPT !.extractor = IF u.with_delete THEN @ \ {u.load} ELSE @]
    IN  IF u.schema_name # normalize_schema_name(u.schema_name)
        THEN [deleted EXCEPT !.pc = "raised", !.result = <<"ValueError">>]
        ELSE [deleted EXCEPT
                 !.pc = "returned", !.result = dest_name,
                 !.extracted = IF u.no_processed_events > 0 THEN @ \cup {dest_name} ELSE @]

commit_events(u) ==
    LET dest_name == build_extracted_file_name(
                         u.schema_name, u.dest_file_stem, u.no_processed_events, u.load)
    IN  IF u.schema_name # normalize_schema_name(u.schema_name)
        THEN [u EXCEPT !.pc = "raised", !.result = <<"ValueError">>]
        ELSE [u EXCEPT
                 !.pc = "returned", !.result = dest_name,
                 !.extracted = IF u.no_processed_events > 0 THEN @ \cup {dest_name} ELSE @,
                 !.extractor = IF u.with_delete THEN @ \ {u.load} ELSE @]

CommitEvents ==
    /\ unit.fn = "commit_events" /\ unit.pc = "call"
    /\ unit' = commit_events(unit)
    /\ UNCHANGED loaderVars

\* ---------------------------------------------------------------------------
\* VersionedStorage.__init__, reached from ExtractorStorageBase.__init__
\* (extractor_storage.py:12-15): the version file of a storage (0: no file),
\* the owner flag and the migrations registered (v: the migration from
\* version v to v + 1).
\* ---------------------------------------------------------------------------
STORAGE_VERSION == MaxVersion - 1

VersionCalls ==
    { [fn |-> "versioned_storage", version_file |-> e, is_owner |-> o,
       migrations |-> m, pc |-> "open", existing |-> e, ran |-> <<>>,
       result |-> "none"] :
        e \in 0 .. MaxVersion, o \in BOOLEAN, m \in SUBSET (1 .. MaxVersion - 1) }

RECURSIVE migrate_storage(_, _, _)
\* the migrations run in order from version from_version towards to_version
migrate_storage(from_version, to_version, migrations) ==
    IF from_version < to_version /\ from_version \in migrations
    THEN <<from_version>> \o migrate_storage(from_version + 1, to_version, migrations)
    ELSE <<>>

open_storage_WriteEachStep(u) ==
    LET steps == migrate_storage(u.version_file, STORAGE_VERSION, u.migrations)
        migrated == u.version_file + Len(steps)
    IN  IF u.version_file = 0
        THEN IF u.is_owner
             THEN [u EXCEPT !.pc = "opened", !.version_file = STORAGE_VERSION,
                            !.result = "opened"]
             ELSE [u EXCEPT !.pc = "failed", !.result = "WrongStorageVersion"]
        ELSE [u EXCEPT !.pc = IF migrated = STORAGE_VERSION THEN "opened" ELSE "failed",
                       !.ran = steps,
                       !.version_file = migrated,
                       !.result = IF migrated = STORAGE_VERSION THEN "opened"
                                  ELSE "NoMigrationPath"]

open_storage(u) ==
    LET steps == migrate_storage(u.version_file, STORAGE_VERSION, u.migrations)
        migrated == u.version_file + Len(steps)
    IN  IF u.version_file = 0
        THEN IF u.is_owner
             THEN [u EXCEPT !.pc = "opened", !.version_file = STORAGE_VERSION,
                            !.result = "opened"]
             ELSE [u EXCEPT !.pc = "failed", !.result = "WrongStorageVersion"]
        ELSE IF u.version_file > STORAGE_VERSION
        THEN [u EXCEPT !.pc = "failed", !.result = "NoMigrationPath"]
        ELSE IF migrated = STORAGE_VERSION
        THEN [u EXCEPT !.pc = "opened", !.ran = steps,
                       !.version_file = STORAGE_VERSION, !.result = "opened"]
        ELSE [u EXCEPT !.pc = "failed", !.ran = steps, !.result = "NoMigrationPath"]

OpenStorage ==
    /\ unit.fn = "versioned_storage" /\ unit.pc = "open"
    /\ unit' = open_storage(unit)
    /\ UNCHANGED loaderVars

\* ---------------------------------------------------------------------------
\* The job ids of two job files of one package (gcp/client.py:303-309).
\* A job file name is <table>.<stem>.<ext>; a table name is an identifier and
\* may hold underscores (event_user, a__b), ext is jsonl or insert_values.
\* ---------------------------------------------------------------------------
TableNames == SeqsUpTo(IdentChars, MaxNameLen - 1)

Stems == SeqsUpTo(IdentChars, MaxNameLen - 1)

LoaderFileFormats == {<<"jsonl">>, <<"insert", "_", "values">>}

\* The job file name of a table, a stem and a file format.
JobFileName(table, stem, ext) == table \o <<".">> \o stem \o <<".">> \o ext

JobFiles == [table : TableNames, stem : Stems, ext : LoaderFileFormats]

JobIdPairCalls ==
    [fn : {"job_id_pair"}, a : JobFiles, b : JobFiles,
     pc : {"call"}, id_a : {<<>>}, id_b : {<<>>}]

\* The path of a job file of the package in new/.
NewPath(j) == <<"", "storage", "loading", "1", "new", JobFileName(j.table, j.stem, j.ext)>>

\* _create_load_job (line 285) computes the job id of each of the two files.
JobIdPairCall ==
    /\ unit.fn = "job_id_pair"
    /\ unit.pc = "call"
    /\ unit' = [unit EXCEPT !.pc = "returned",
                            !.id_a = get_job_id_from_file_path(NewPath(unit.a)),
                            !.id_b = get_job_id_from_file_path(NewPath(unit.b))]
    /\ UNCHANGED loaderVars

\* ---------------------------------------------------------------------------
\* RedshiftInsertLoadJob._insert, the size check alone (redshift/client.py:155-161).
\* ---------------------------------------------------------------------------
\* RedshiftSqlClient.MAX_STATEMENT_SIZE, as line 51 writes it.
MAX_STATEMENT_SIZE == 16 * 1024 * 1204

\* os.stat(file_path).st_size: an empty file, and the sizes next to 16 MB (the
\* maximum statement of the comment at line 157) and next to MAX_STATEMENT_SIZE.
StatSizes ==
    {0} \cup {at + by : at \in {16 * 1024 * 1024, MAX_STATEMENT_SIZE}, by \in {-1, 0, 1}}

InsertSizeCalls ==
    [fn : {"insert_size"}, st_size : StatSizes, pc : {"call"}, result : {"none"}]

\* _insert, lines 159-162: LoadFileTooBig is raised or the file is opened.
InsertSizeCheck ==
    /\ unit.fn = "insert_size"
    /\ unit.pc = "call"
    /\ unit' = [unit EXCEPT !.pc = "returned",
                            !.result = IF unit.st_size >= MAX_STATEMENT_SIZE
                                       THEN "LoadFileTooBig" ELSE "insert"]
    /\ UNCHANGED loaderVars

UnitCalls ==
    SpoolJobCalls \cup JobIdCalls \cup InsertCalls \cup StartFileLoadCalls \cup SpoolNewJobsCalls \cup SchemaUpdateCalls \cup PoolCalls \cup NormalizeCalls \cup CommitEventsCalls \cup VersionCalls \cup JobIdPairCalls \cup InsertSizeCalls

UnitInit == LoaderAtRest /\ unit \in UnitCalls

UnitNext ==
    \/ SpoolJobCall
    \/ SpoolJobPoll
    \/ JobIdCall
    \/ InsertStart
    \/ ExecuteStatement
    \/ ExecuteRaises
    \/ InsertReturn
    \/ StartFileLoadRaises
    \/ StartFileLoadComplete
    \/ SpoolNewJobsLoad
    \/ BuildSchemaUpdateSql
    \/ ExecuteSchemaUpdate
    \/ PoolWorker
    \/ NormalizeCall
    \/ CommitEvents
    \/ OpenStorage
    \/ JobIdPairCall
    \/ InsertSizeCheck

UnitSpec == UnitInit /\ [][UnitNext]_vars

\* ---------------------------------------------------------------------------
\* The pipeline (dlt/pipeline/pipeline.py): pipeline objects of one process
\* over one working directory.  The storages under the directory
\* (FileStorage, NormalizeStorage, LoaderStorage, schema storage) are kept as
\* the sets of files they hold.
\* ---------------------------------------------------------------------------
Pipelines == 1 .. NumPipelines
PipelineNames == {"a", "b"}
SchemaNames == {"", "s"}

\* a key a dict does not hold, None for an attribute
Missing == "<missing>"

Credentials == [CLIENT_TYPE |-> "redshift", default_dataset |-> "prefix"]

\* self.state = {} (pipeline.py:40)
EmptyState ==
    [pipeline_name |-> Missing, default_schema_name |-> Missing,
     loader_client_type |-> Missing, loader_schema_prefix |-> Missing]

\* the state a pipeline created earlier, by another process, left in state.json
OldState(name, schema_name) ==
    [pipeline_name |-> name, default_schema_name |-> schema_name,
     loader_client_type |-> "gcp", loader_schema_prefix |-> "old"]

\* the working directory after delete_folder("", recursively=True) and
\* create_folder("") (pipeline.py:63-64)
EmptyDir ==
    [has_state |-> FALSE, state_json |-> EmptyState, schemas |-> {},
     extractor |-> {}, temp |-> {}, extracted |-> {}, normalized |-> {},
     completed |-> {}]

\* a file of extracted records; whole is FALSE while its bytes are written
File(id, count, whole) == [load_id |-> id, count |-> count, whole |-> whole]

\* what a working directory may hold before the first call: nothing, or the
\* state, schema, extracted file and load package of an earlier pipeline
Dirs ==
    { [EmptyDir EXCEPT !.has_state = hs,
                       !.state_json = IF hs THEN OldState(nm, sn) ELSE EmptyState,
                       !.schemas = IF stored THEN {sn} ELSE {},
                       !.extracted = IF old THEN {File(0, 1, TRUE)} ELSE {},
                       !.normalized = IF old THEN {0} ELSE {}] :
        hs \in BOOLEAN, nm \in PipelineNames, sn \in SchemaNames,
        stored \in BOOLEAN, old \in BOOLEAN }

\* Pipeline.__init__ (pipeline.py:36-44)
NewPipeline(name) ==
    [pipeline_name |-> name, default_schema_name |-> Missing, state |-> EmptyState,
     loader_instance |-> 0, normalize_instance |-> 0, status |-> "new", at |-> 0]

NoExtract == [p |-> 0, n |-> 0, load_id |-> 0, pc |-> "none", backup_state |-> EmptyState]

\* runner.LAST_RUN_METRICS as the run of a step wrote it (pipeline.py:314, 317;
\* the runner for normalize and load); run "earlier": no run of this call
\* wrote it
RunMetrics(run, has_failed) ==
    [run |-> run, was_idle |-> FALSE, has_failed |-> has_failed, pending_items |-> 0]

NoLast ==
    [p |-> 0, op |-> "none", result |-> "none", acted |-> FALSE, before |-> EmptyDir,
     backup_state |-> EmptyState, raises |-> FALSE, saved |-> FALSE,
     n |-> 0, load_id |-> 0, step |-> "none", metrics |-> RunMetrics("earlier", FALSE)]

PipelineCalls ==
    { [fn |-> "pipeline", dir |-> d,
       obj |-> [p \in Pipelines |-> NewPipeline(IF p = 1 THEN "a" ELSE nm)],
       loader_CONFIG |-> 0, normalize_CONFIG |-> 0, made |-> 0, clock |-> 0,
       uniq |-> 0, ext |-> NoExtract, last |-> NoLast] :
        d \in Dirs, nm \in PipelineNames }

IsPipeline == unit.fn = "pipeline"

\* a further call may be made
Callable == unit.ext = NoExtract /\ unit.clock < MaxCalls

\* Pipeline._managed_state (pipeline.py:321-333): body is what the block under
\* the context manager did, the state it left and whether it raised
managed_state_Persist(state, body) ==
    [state |-> IF body.raises THEN state ELSE body.state,
     raises |-> body.raises, saved |-> TRUE]

managed_state(state, body) ==
    LET backup_state == state IN
    IF body.raises
    THEN [state |-> backup_state, raises |-> TRUE, saved |-> FALSE]
    ELSE [state |-> body.state, raises |-> FALSE, saved |-> TRUE]

\* root_storage.save("state.json", json.dumps(self.state)) (pipeline.py:333)
SaveState(dir, m) ==
    IF m.saved THEN [dir EXCEPT !.has_state = TRUE, !.state_json = m.state] ELSE dir

\* Pipeline._restore_state (pipeline.py:335-338): the state cleared, then
\* updated with the stored one; FileNotFoundError without a state.json
restore_state_Empty(dir) ==
    [found |-> dir.has_state, state |-> EmptyState]

restore_state(dir) ==
    [found |-> dir.has_state,
     state |-> IF dir.has_state THEN dir.state_json ELSE EmptyState]

\* Pipeline._load_modules (pipeline.py:288-292, 232-262): loader.configure and
\* normalize.configure replace the module-level CONFIG objects, whose
\* identities the pipeline keeps
load_modules(u, p) ==
    [u EXCEPT !.made = @ + 2,
              !.loader_CONFIG = u.made + 1,
              !.normalize_CONFIG = u.made + 2,
              !.obj[p].loader_instance = u.made + 1,
              !.obj[p].normalize_instance = u.made + 2]

\* Pipeline._verify_loader_instance (pipeline.py:267-272)
verify_loader_instance(u, p) ==
    IF u.obj[p].loader_instance = 0 THEN "NoPipelineException"
    ELSE IF u.obj[p].loader_instance # u.loader_CONFIG
         THEN "InvalidPipelineContextException"
         ELSE "ok"

\* Pipeline._verify_normalize_instance (pipeline.py:274-279): the None test
\* reads _loader_instance
verify_normalize_instance(u, p) ==
    IF u.obj[p].loader_instance = 0 THEN "NoPipelineException"
    ELSE IF u.obj[p].normalize_instance # u.normalize_CONFIG
         THEN "InvalidPipelineContextException"
         ELSE "ok"

\* `if self.default_schema_name:` (pipeline.py:197): None and "" are falsy
HasDefaultSchema(o) == o.default_schema_name # Missing /\ Truthy(o.default_schema_name)

\* root_storage.delete_folder("", recursively=True) and create_folder("")
\* (pipeline.py:63-64)
delete_folder_Keep(dir) == dir

delete_folder(dir) == EmptyDir

\* Pipeline.create_pipeline (pipeline.py:53-86) on a new pipeline object.
\* creds_ok: the credentials object has the attributes read at lines 83-85.
create_pipeline(u, p, schema_name, creds_ok) ==
    LET r    == restore_state(u.dir)
        d1   == IF r.found THEN delete_folder(u.dir) ELSE u.dir
        u1   == load_modules(u, p)
        d2   == [d1 EXCEPT !.schemas = @ \cup {schema_name}]
        s2   == [r.state EXCEPT !.default_schema_name = schema_name]
        m1   == managed_state(r.state, [raises |-> FALSE, state |-> s2])
        d3   == SaveState(d2, m1)
        body == IF creds_ok
                THEN [raises |-> FALSE,
                      state |-> [default_schema_name |-> schema_name,
                                 pipeline_name |-> u.obj[p].pipeline_name,
                                 loader_client_type |-> Credentials.CLIENT_TYPE,
                                 loader_schema_prefix |-> Credentials.default_dataset]]
                ELSE [raises |-> TRUE, state |-> m1.state]
        m2   == managed_state(m1.state, body)
    IN  [u1 EXCEPT !.dir = SaveState(d3, m2),
                   !.clock = @ + 1,
                   !.obj[p].default_schema_name = schema_name,
                   !.obj[p].state = m2.state,
                   !.obj[p].status = IF m2.raises THEN "raised" ELSE "created",
                   !.obj[p].at = u.clock + 1,
                   !.last = [p |-> p, op |-> "create_pipeline",
                             result |-> IF m2.raises THEN "AttributeError" ELSE "returned",
                             acted |-> TRUE, before |-> u.dir,
                             backup_state |-> m1.state, raises |-> m2.raises,
                             saved |-> m2.saved, n |-> 0, load_id |-> 0,
                             step |-> "none",
                             metrics |-> RunMetrics("earlier", FALSE)]]

CreatePipeline ==
    /\ IsPipeline /\ Callable
    /\ \E p \in Pipelines, schema_name \in SchemaNames, creds_ok \in BOOLEAN :
          /\ unit.obj[p].status = "new"
          /\ unit' = create_pipeline(unit, p, schema_name, creds_ok)
    /\ UNCHANGED loaderVars

\* Pipeline.restore_pipeline (pipeline.py:88-112) on a new pipeline object.
\* CannotRestorePipelineException raised at lines 96, 99 and 109 is caught at
\* line 111: the call returns.
restore_pipeline(u, p) ==
    LET r  == restore_state(u.dir)
        o  == u.obj[p]
        ended(v, result, status) ==
            [v EXCEPT !.clock = @ + 1,
                      !.obj[p].status = status,
                      !.obj[p].at = u.clock + 1,
                      !.last = [NoLast EXCEPT !.p = p, !.op = "restore_pipeline",
                                              !.result = result, !.before = u.dir]]
        u1 == [u EXCEPT !.obj[p].state = r.state]
        u2 == load_modules(
                 [u1 EXCEPT !.obj[p].default_schema_name = r.state.default_schema_name], p)
    IN  IF ~r.found THEN ended(u1, "returned", "not_found")
        ELSE IF r.state.pipeline_name = Missing THEN ended(u1, "KeyError", "raised")
        ELSE IF o.pipeline_name # r.state.pipeline_name
             THEN ended(u1, "returned", "other_name")
        ELSE IF r.state.default_schema_name = Missing
             THEN ended(u1, "KeyError", "raised")
        ELSE IF r.state.loader_schema_prefix = Missing
             THEN ended([u1 EXCEPT !.obj[p].default_schema_name =
                                       r.state.default_schema_name],
                        "KeyError", "raised")
        ELSE IF r.state.default_schema_name \notin u.dir.schemas
             THEN ended(u2, "returned", "no_schema")
        ELSE ended(u2, "returned", "restored")

RestorePipeline ==
    /\ IsPipeline /\ Callable
    /\ \E p \in Pipelines :
          /\ unit.obj[p].status = "new"
          /\ unit' = restore_pipeline(unit, p)
    /\ UNCHANGED loaderVars

\* a pipeline object whose create_pipeline or restore_pipeline went through
Attached(o) == o.status \in {"created", "restored"}

\* Pipeline.set_default_schema (pipeline.py:196-205); remove_store_schema of
\* a schema the storage does not hold raises FileNotFoundError
set_default_schema(u, p, schema_name) ==
    LET o    == u.obj[p]
        gone == HasDefaultSchema(o) /\ o.default_schema_name \notin u.dir.schemas
        d1   == IF HasDefaultSchema(o)
                THEN [u.dir EXCEPT !.schemas = @ \ {o.default_schema_name}]
                ELSE u.dir
        d2   == [d1 EXCEPT !.schemas = @ \cup {schema_name}]
        m    == managed_state(o.state,
                    [raises |-> FALSE,
                     state |-> [o.state EXCEPT !.default_schema_name = schema_name]])
    IN  IF gone
        THEN [u EXCEPT !.clock = @ + 1,
                       !.last = [NoLast EXCEPT !.p = p, !.op = "remove_store_schema",
                                               !.result = "FileNotFoundError"]]
        ELSE [u EXCEPT !.clock = @ + 1,
                       !.dir = SaveState(d2, m),
                       !.obj[p].default_schema_name = schema_name,
                       !.obj[p].state = m.state,
                       !.last = [NoLast EXCEPT !.p = p, !.op = "set_default_schema",
                                               !.result = "returned", !.acted = TRUE,
                                               !.backup_state = o.state,
                                               !.raises = m.raises, !.saved = m.saved]]

SetDefaultSchema ==
    /\ IsPipeline /\ Callable
    /\ \E p \in Pipelines, schema_name \in SchemaNames :
          /\ Attached(unit.obj[p])
          /\ unit' = set_default_schema(unit, p, schema_name)
    /\ UNCHANGED loaderVars

\* Pipeline.extract (pipeline.py:114-134) up to save_json (pipeline.py:304-305):
\* no instance is verified; consuming the items may raise (bad), and the
\* exception leaves through _managed_state
ExtractStart ==
    /\ IsPipeline /\ Callable /\ unit.uniq < MaxExtracts
    /\ \E p \in Pipelines, n \in 0 .. MaxItems, bad \in BOOLEAN :
          /\ Attached(unit.obj[p])
          /\ LET o == unit.obj[p]
                 m == managed_state(o.state, [raises |-> TRUE, state |-> o.state])
                 id == unit.uniq + 1
             IN  IF bad
                 THEN unit' = [unit EXCEPT
                          !.clock = @ + 1,
                          !.obj[p].state = m.state,
                          !.last = [NoLast EXCEPT !.p = p, !.op = "extract",
                                                  !.result = "raised",
                                                  !.backup_state = o.state,
                                                  !.raises = m.raises,
                                                  !.saved = m.saved]]
                 ELSE unit' = [unit EXCEPT
                          !.clock = @ + 1,
                          !.uniq = id,
                          !.dir.extractor = @ \cup {File(id, n, TRUE)},
                          !.ext = [p |-> p, n |-> n, load_id |-> id,
                                   pc |-> "commit", backup_state |-> o.state],
                          !.last = [NoLast EXCEPT !.p = p, !.op = "extract",
                                                  !.result = "running",
                                                  !.acted = TRUE,
                                                  !.before = unit.dir,
                                                  !.n = n, !.load_id = id]]
    /\ UNCHANGED loaderVars

\* FileStorage.copy_cross_storage_atomically, first half: the bytes go to a
\* temporary name in the destination storage
copy_cross_storage_InPlace(dir, f) ==
    [dir EXCEPT !.extracted = @ \cup {[f EXCEPT !.whole = FALSE]}]

copy_cross_storage(dir, f) ==
    [dir EXCEPT !.temp = @ \cup {[f EXCEPT !.whole = FALSE]}]

\* ExtractorStorageBase.commit_events (extractor_storage.py:26-41): the copy
\* starts when no_processed_events > 0
ExtractCommit ==
    /\ IsPipeline /\ unit.ext.pc = "commit"
    /\ LET f == File(unit.ext.load_id, unit.ext.n, TRUE) IN
       unit' = IF unit.ext.n > 0
               THEN [unit EXCEPT !.dir = copy_cross_storage(unit.dir, f),
                                 !.ext.pc = "copy"]
               ELSE [unit EXCEPT !.ext.pc = "delete"]
    /\ UNCHANGED loaderVars

\* copy_cross_storage_atomically, second half: the bytes are complete, then
\* the temporary name is renamed into the extracted folder
ExtractRename ==
    /\ IsPipeline /\ unit.ext.pc = "copy"
    /\ LET f == File(unit.ext.load_id, unit.ext.n, TRUE)
           part == [f EXCEPT !.whole = FALSE]
       IN  unit' = [unit EXCEPT
               !.dir.temp = @ \ {part},
               !.dir.extracted = IF part \in unit.dir.temp
                                 THEN @ \cup {f}
                                 ELSE (@ \ {part}) \cup {f},
               !.ext.pc = "delete"]
    /\ UNCHANGED loaderVars

\* storage.delete(processed_file_path) (extractor_storage.py:38-39), the
\* return of _extract_iterator and the exit of _managed_state
ExtractReturn ==
    /\ IsPipeline /\ unit.ext.pc = "delete"
    /\ LET p == unit.ext.p
           o == unit.obj[p]
           f == File(unit.ext.load_id, unit.ext.n, TRUE)
           m == managed_state(unit.ext.backup_state, [raises |-> FALSE, state |-> o.state])
       IN  unit' = [unit EXCEPT
               !.dir = SaveState([unit.dir EXCEPT !.extractor = @ \ {f}], m),
               !.obj[p].state = m.state,
               !.ext = NoExtract,
               !.last = [unit.last EXCEPT
                                       !.result = "returned",
                                       !.metrics = RunMetrics("extract", FALSE),
                                       !.backup_state = unit.ext.backup_state,
                                       !.raises = m.raises, !.saved = m.saved]]
    /\ UNCHANGED loaderVars

\* a storage call of _extract_iterator raises: the exception is recorded and
\* raised again (pipeline.py:315-319), extract raises PipelineStepFailed
\* (pipeline.py:133-134) and _managed_state restores the state
ExtractRaises ==
    /\ IsPipeline /\ unit.ext.pc \in {"commit", "copy", "delete"}
    /\ LET p == unit.ext.p
           o == unit.obj[p]
           m == managed_state(unit.ext.backup_state, [raises |-> TRUE, state |-> o.state])
       IN  unit' = [unit EXCEPT
               !.dir = SaveState(unit.dir, m),
               !.obj[p].state = m.state,
               !.ext = NoExtract,
               !.last = [unit.last EXCEPT
                                       !.result = "PipelineStepFailed",
                                       !.step = "extract",
                                       !.metrics = RunMetrics("extract", TRUE),
                                       !.backup_state = unit.ext.backup_state,
                                       !.raises = m.raises, !.saved = m.saved]]
    /\ UNCHANGED loaderVars

\* the operations that verify an instance first (pipeline.py:136-230)
NormalizeVerified == {"normalize", "flush", "get_default_schema"}
LoaderVerified ==
    {"load", "list_extracted_loads", "list_normalized_loads", "list_completed_loads",
     "list_failed_jobs", "sync_schema", "sql_client"}

verify(u, p, op) ==
    IF op \in NormalizeVerified THEN verify_normalize_instance(u, p)
    ELSE verify_loader_instance(u, p)

\* normalize.normalize under the runner: the extracted files become load
\* packages
normalize(dir) ==
    [dir EXCEPT !.extracted = {},
                !.normalized = @ \cup {f.load_id : f \in dir.extracted}]

\* loader.load under the runner: the load packages are completed
LoadPackages(dir) ==
    [dir EXCEPT !.normalized = {}, !.completed = @ \cup dir.normalized]

\* the steps an operation runs under the runner (pipeline.py:145, 152, 157-158)
Steps(op) ==
    CASE op = "normalize" -> {"normalize"}
      [] op = "load" -> {"load"}
      [] op = "flush" -> {"normalize", "load"}
      [] OTHER -> {}

\* one of the verified operations, called on a pipeline object; failed is the
\* step whose run left has_failed set in runner.LAST_RUN_METRICS, if any
\* (pipeline.py:146-147, 153-154)
Operation ==
    /\ IsPipeline /\ Callable
    /\ \E p \in Pipelines, op \in NormalizeVerified \cup LoaderVerified,
          failed \in {"none", "normalize", "load"} :
          /\ unit.obj[p].status # "new"
          /\ failed # "none" => (failed \in Steps(op) /\ verify(unit, p, op) = "ok")
          /\ LET v == verify(unit, p, op)
                 ran == IF v # "ok" THEN {}
                        ELSE IF failed = "normalize" THEN {}
                        ELSE IF failed = "load" THEN Steps(op) \ {"load"}
                        ELSE Steps(op)
                 d1 == IF "normalize" \in ran THEN normalize(unit.dir) ELSE unit.dir
                 d2 == IF "load" \in ran THEN LoadPackages(d1) ELSE d1
                 lastrun == IF failed # "none" THEN failed
                            ELSE IF "load" \in ran THEN "load" ELSE "normalize"
             IN  unit' = [unit EXCEPT
                     !.clock = @ + 1,
                     !.dir = d2,
                     !.last = [NoLast EXCEPT
                         !.p = p, !.op = op,
                         !.result = IF v # "ok" THEN v
                                    ELSE IF failed # "none" THEN "PipelineStepFailed"
                                    ELSE "returned",
                         !.acted = (v = "ok"),
                         !.step = failed,
                         !.metrics = IF v = "ok" /\ Steps(op) # {}
                                     THEN RunMetrics(lastrun, failed # "none")
                                     ELSE RunMetrics("earlier", FALSE)]]
    /\ UNCHANGED loaderVars

PipelineInit == LoaderAtRest /\ unit \in PipelineCalls

PipelineNext ==
    \/ CreatePipeline
    \/ RestorePipeline
    \/ SetDefaultSchema
    \/ ExtractStart
    \/ ExtractCommit
    \/ ExtractRename
    \/ ExtractReturn
    \/ ExtractRaises
    \/ Operation

PipelineSpec == PipelineInit /\ [][PipelineNext]_vars

\* ============================================================ claims

\* ------------------------------------------------------------ C2
\* The folder a worker's file must be in for where the worker is in spool_job.
WorkerFolder(s) == IF s = "returned" THEN "started" ELSE "new"

\* C2: in every state, also between the steps of concurrent spool workers, every
\* job file of a package is in exactly one of new/, started/, failed/,
\* completed/; the folder alone gives the job's state: a file whose job is live
\* in the tick (to be polled) is in started/, a file whose worker has not yet
\* returned its job is in new/.
C2_OneFolderPerFile ==
    /\ \A p \in Loads : \A f \in FilesOf(p) :
          Cardinality({d \in Folders : f \in folder[p][d]}) = 1
    /\ \A p \in Loads : \A d \in Folders : folder[p][d] \subseteq FilesOf(p)
    /\ pc = "poll" => (todo \cup remaining) \subseteq folder[load_id]["started"]
    /\ pc = "pool" =>
          \A i \in 1..Len(tasks) :
             wstate[i] # "none" => tasks[i] \in folder[load_id][WorkerFolder(wstate[i])]

\* C2's case: two workers between their steps, one has moved its file, one not.
C2_Witness ==
    /\ pc = "pool"
    /\ \E i, j \in 1..Len(tasks) : wstate[i] = "returned" /\ wstate[j] = "got_completed"

\* ------------------------------------------------------------ C3
\* C3: with the synchronous insert backend, whatever the points at which the
\* process is killed, no file's insert transaction is committed twice, and a
\* good file of an archived package was committed exactly once.
C3_ExactlyOnce ==
    CLIENT_TYPE = "redshift" =>
       \A f \in Files :
          /\ inserts[f] <= 1
          /\ (pkg[PkgOf(f)] # "live" /\ fileKind[f] = "good") => inserts[f] = 1

\* ------------------------------------------------------------ C4
\* Nothing has been done for package p: its files are in new/, its sentinel is
\* as it was written, nothing of it is at the destination.
Untouched(p) ==
    /\ pkg[p] = "live"
    /\ folder[p]["new"] = FilesOf(p)
    /\ sentinel[p] = (schemaUpdate[p] # "none")
    /\ \A f \in FilesOf(p) : inserts[f] = 0 /\ serverJob[f] = "none"

\* C4: for packages L1 < L2, while L1 is under the load root no tick works on
\* L2: no client call is made and no file is moved for L2.
C4_SmallestLoadFirst ==
    \A L1, L2 \in Loads :
       (L1 < L2 /\ pkg[L1] = "live") => (load_id # L2 /\ Untouched(L2))

\* C4's case: a tick works on L2 after L1 was archived.
C4_Witness ==
    /\ pc = "pool"
    /\ load_id = 2
    /\ pkg[1] # "live"

C7_SchemaUpdateOnce ==
    /\ \A i \in LogIdx("update_storage_schema") :
          i = 2 /\ log[1] = Entry("initialize_storage", 0, "ok")
    /\ (Called("restore_file_load") \/ Called("start_file_load")) => ~sentinel[load_id]
    /\ \A i \in LogIdx("commit_schema_update") :
          i = 3 /\ log[2] = Entry("update_storage_schema", 0, "ok")
    /\ (Called("update_storage_schema") /\ ~Called("commit_schema_update")) =>
          sentinel[load_id]
    /\ \A p \in Loads : sentinel[p] => schemaUpdate[p] # "none"

\* C7's case: the update was made, the sentinel deleted, and a job started.
C7_Witness ==
    /\ Called("commit_schema_update")
    /\ Called("start_file_load")
    /\ ~sentinel[load_id]

\* ------------------------------------------------------------ C8
\* The first package under the load root is one whose schema update is rejected.
BlockedOn(p) ==
    /\ schemaUpdate[p] = "will_not_update"
    /\ \A q \in Loads : q < p => pkg[q] # "live"

\* C8: when update_storage_schema raises, the package is as it was: sentinel
\* present, every file in new/, nothing started, restored or archived; a package
\* whose update raises SchemaWillNotUpdate stays so, and every tick that finds it
\* first under the load root works on it and gets no further than the update.
C8_RejectedUpdateLeavesPackage ==
    \A p \in Loads :
       /\ (schemaUpdate[p] = "will_not_update" \/ sentinel[p]) => Untouched(p)
       /\ (pc = "failed" /\ p = load_id /\ log[Len(log)].op = "update_storage_schema") =>
             sentinel[p]
       /\ (BlockedOn(p) /\ InTick /\ load_id # p) =>
             (load_id = 0 \/ pkg[load_id] # "live")
       /\ (BlockedOn(p) /\ load_id = p) =>
             /\ pc \in {"init", "schema", "failed"}
             /\ ~Called("restore_file_load") /\ ~Called("start_file_load")
             /\ ~Called("complete_load") /\ ~Called("archive_load")

\* C8's case: the update of the second package has raised, in a second attempt.
C8_Witness ==
    /\ pc = "failed"
    /\ load_id = 2
    /\ log[Len(log)] = Entry("update_storage_schema", 0, "terminal")
    /\ faults > 0

\* ------------------------------------------------------------ C9
\* C9: retrieve_jobs calls restore_file_load once per file of started/, in the
\* order of the listing; a transient exception ends the tick with every file
\* still in started/; a terminal exception makes a failed job, the other files
\* are still restored, and the file is in failed/ when the tick returns.
\* (A tick that is killed, or that a raising status() ends, moves what it polled
\* before; the next tick restores the rest again.)
C9_RetrieveJobs ==
    /\ \A f \in Files : Cardinality(LogOf("restore_file_load", f)) <= 1
    /\ pc = "restore" =>
          /\ folder[load_id]["started"] = Restored \cup todo
          /\ Restored \cap todo = {}
    /\ (pc = "failed" /\ Called("restore_file_load")
           /\ log[Len(log)].op = "restore_file_load") =>
          /\ log[Len(log)].r = "transient"
          /\ Restored \subseteq folder[load_id]["started"]
          /\ todo \subseteq folder[load_id]["started"]
          /\ \A f \in Files : jobs[f] # "none" => f \in folder[load_id]["started"]
    /\ \A f \in Files :
          Entry("restore_file_load", f, "terminal") \in Range(log) =>
             /\ jobs[f] = "failed"
             /\ pc \in {"poll", "done"} =>
                   \A g \in FilesOf(load_id) :
                      g \in Restored \/ g \notin folder[load_id]["started"]
             /\ pc = "done" => f \in folder[load_id]["failed"]

\* C9's case: one restore raised a terminal exception, another file was restored
\* after it, and the tick has returned.
C9_Witness ==
    /\ pc = "done"
    /\ \E f, g \in Files :
          /\ f < g
          /\ Entry("restore_file_load", f, "terminal") \in Range(log)
          /\ Entry("restore_file_load", g, "ok") \in Range(log)

\* ------------------------------------------------------------ C10
Spooled == Range(tasks)

\* C10: jobs are spooled only in a tick whose retrieve_jobs found started/
\* empty; the files taken are the first of the listing of new/, at most WORKERS,
\* each handed to one worker; the files beyond stay in new/ and nothing is
\* called for them.
C10_SpoolAtMostWorkers ==
    /\ pc = "spool" => folder[load_id]["started"] = {}
    /\ tasks # <<>> => ~Called("restore_file_load")
    /\ Len(tasks) <= WORKERS
    /\ \A i, j \in 1..Len(tasks) : i # j => tasks[i] # tasks[j]
    /\ tasks # <<>> =>
          /\ \A f \in Spooled : \A g \in folder[load_id]["new"] \ Spooled : f < g
          /\ Len(tasks) < WORKERS => folder[load_id]["new"] \subseteq Spooled
          /\ \A g \in FilesOf(load_id) \ Spooled :
                /\ jobs[g] = "none"
                /\ LogOf("start_file_load", g) = {}
                /\ g \notin folder[load_id]["started"]

\* C10's case: more new files than WORKERS; the first were taken and polled, the
\* rest is in new/.
C10_Witness ==
    /\ pc = "done"
    /\ Len(tasks) = WORKERS
    /\ folder[load_id]["new"] \ Spooled # {}
    /\ Spooled \subseteq folder[load_id]["completed"]

\* ------------------------------------------------------------ C1
\* f is in exactly one of completed/ and failed/ of its package or archive.
InFinal(f) == OnDisk(f, "completed") # OnDisk(f, "failed")

\* f is in its final folder, or was in completed/ when archive_load deleted the
\* package (DELETE_COMPLETED_JOBS, no failed job).
Settled(f) ==
    \/ InFinal(f)
    \/ pkg[PkgOf(f)] = "deleted" /\ f \in folder[PkgOf(f)]["completed"]

\* The package of f, or one before it, has a schema update that is rejected.
BlockedFile(f) == \E q \in Loads : q <= PkgOf(f) /\ schemaUpdate[q] = "will_not_update"

C6_RestoredEndsCompleted ==
    pc = "done" => Restored \subseteq folder[load_id]["completed"]

\* Where a restored file is when the tick returns.
RestoredEnd(f) ==
    IF CLIENT_TYPE = "redshift" \/ serverJob[f] = "completed" THEN "completed" ELSE "failed"

\* C6 amended: a file found in started/ is restored, not started again; when
\* the tick returns it is in completed/ for the insert backend, and for the
\* asynchronous backend in completed/ if its server-side job succeeded, in
\* failed/ if that job failed or does not exist; the package is archived later,
\* as is every package that no rejected schema update holds back.
C6_RestoredEndsByStatus ==
    /\ [](/\ Called("restore_file_load") => ~Called("start_file_load")
          /\ pc = "done" => \A f \in Restored : f \in folder[load_id][RestoredEnd(f)])
    /\ <>[](\A p \in Loads : (\E f \in FilesOf(p) : BlockedFile(f)) \/ pkg[p] # "live")

\* C6's case: after a kill, a tick of the asynchronous backend has restored two
\* files and returned with one in completed/ and one in failed/.
C6_Witness ==
    /\ pc = "done"
    /\ CLIENT_TYPE = "gcp"
    /\ \E f, g \in Restored :
          f \in folder[load_id]["completed"] /\ g \in folder[load_id]["failed"]

\* ------------------------------------------------------------ C11
\* spool_job of this tick got a transient or unclassified exception for f.
SpoolTransient(f) ==
    \E k \in LogOf("start_file_load", f) : log[k].r = "transient"

\* f is handed to a worker of the pool that has not yet acted.
Submitted(f) ==
    pc = "pool" /\ \E i \in 1..Len(tasks) : tasks[i] = f /\ wstate[i] = "submitted"

\* C11: a file whose spool_job got a transient or unclassified exception is in
\* new/ of its package, which stays under the load root, and no job is held for
\* it; a file whose spool_job returned a job is no longer in new/ (it was moved
\* to started/ before the return); and the file of a transient exception is
\* handed to a worker again in a later tick.
C11_TransientStaysInNew ==
    /\ [](\A f \in Files :
            /\ SpoolTransient(f) =>
                  /\ f \in folder[load_id]["new"]
                  /\ jobs[f] = "none"
                  /\ pkg[load_id] = "live"
            /\ \A i \in 1..Len(tasks) :
                  (pc = "pool" /\ tasks[i] = f /\ wstate[i] = "returned") =>
                     /\ f \in folder[load_id]["started"]
                     /\ jobs[f] # "none")
    /\ \A f \in Files : SpoolTransient(f) ~> Submitted(f)

\* C11's case: in one tick a worker got a transient exception and left its file
\* in new/, another returned a job whose file is in started/.
C11_Witness ==
    /\ pc = "pool"
    /\ \E i, j \in 1..Len(tasks) :
          /\ wstate[i] = "none" /\ SpoolTransient(tasks[i])
          /\ tasks[i] \in folder[load_id]["new"]
          /\ wstate[j] = "returned"
          /\ tasks[j] \in folder[load_id]["started"]

\* ------------------------------------------------------------ C12
\* spool_job of this tick got a terminal exception for f, from its own checks
\* or from start_file_load.
SpoolTerminal(f) ==
    \E k \in LogOf("start_file_load", f) \cup LogOf("spool_check", f) : log[k].r = "terminal"

\* The folder a file ends in when nothing but the file decides: a file that
\* loads goes to completed/, one that is rejected or fails to load to failed/.
ExpectedFolder(f) == IF fileKind[f] = "good" THEN "completed" ELSE "failed"

Polls(f) == pc = "poll" /\ todo # {} /\ f = Min(todo) /\ todo' = todo \ {f} /\ pc' = "poll"

\* C13: the step of complete_jobs that polls a job does what the status alone
\* says: completed is complete_job, failed is fail_job with the .exception
\* written, retry is retry_job, running moves nothing and puts the job among the
\* remaining ones; and at the end of a round the remaining jobs are those whose
\* files are still in started/.
C13_MoveByStatus ==
    /\ [][\A f \in Files : Polls(f) =>
            /\ Status(f) = "completed" =>
                  /\ folder' = complete_job(folder, load_id, f)
                  /\ exception_files' = exception_files
            /\ Status(f) = "failed" =>
                  /\ folder' = fail_job(folder, load_id, f)
                  /\ exception_files' = exception_files \cup {f}
            /\ Status(f) = "retry" =>
                  /\ folder' = retry_job(folder, load_id, f)
                  /\ exception_files' = exception_files
            /\ Status(f) = "running" =>
                  /\ folder' = folder
                  /\ exception_files' = exception_files
            /\ remaining' = IF Status(f) = "running" THEN remaining \cup {f} ELSE remaining
         ]_vars
    /\ []((pc = "poll" /\ todo = {}) =>
             remaining = {f \in folder[load_id]["started"] : jobs[f] # "none"})

\* C13's case: the loop is over; a job to retry has its file back in new/, a
\* failed one in failed/ with its .exception, a completed one in completed/ or
\* one that ran was polled again.
C13_Witness ==
    /\ pc = "done"
    /\ \E f, g \in FilesOf(load_id) :
          /\ jobs[f] = "retry" /\ f \in folder[load_id]["new"] /\ f \notin exception_files
          /\ jobs[g] \in {"failed", "server"} /\ g \in folder[load_id]["failed"]
          /\ g \in exception_files

\* ------------------------------------------------------------ C14
\* The file of the call is one spool_job must reject.
Rejected(u) ==
    \/ u.client = "redshift" /\ u.ext # "insert_values"
    \/ u.client = "gcp" /\ u.ext # "jsonl"
    \/ ~u.table_known
    \/ (IF u.own_wd = "absent" THEN u.root_wd ELSE u.own_wd) \in {"skip", "merge", "upsert"}

\* C14: once the client is open, spool_job of a file with an unsupported
\* extension, an unknown table, or a write disposition (its own, or for a table
\* without one its root's) of skip, merge or upsert never calls start_file_load
\* and holds a failed job; the file is moved to started/ and, polled, to failed/.
C14_RejectedBeforeStart ==
    (unit.fn = "spool_job" /\ unit.opens /\ Rejected(unit) /\ unit.pc # "call") =>
       /\ ~unit.called_start
       /\ unit.job = "failed"
       /\ unit.pc = "returned" => unit.at = "started"
       /\ unit.pc = "polled" => unit.at = "failed"

\* C14's case: a child table without a write disposition whose root is merge,
\* in a file of a supported format, has been rejected and polled.
C14_Witness ==
    /\ unit.fn = "spool_job" /\ unit.pc = "polled"
    /\ unit.opens /\ unit.table_known /\ unit.ext \in supported_loader_file_formats(unit.client)
    /\ unit.own_wd = "absent" /\ unit.root_wd = "merge"
    /\ ~unit.called_start /\ unit.at = "failed"

\* ------------------------------------------------------------ C15
\* C15: with BigQuery, however often start_file_load is called for a file,
\* across kills and restarts, the server has made at most one load for the
\* file's job id, exactly one once it has a job of that id; a call that found
\* the id taken made no load and returned a job bound to the job of that id.
C15_OneServerLoadPerFile ==
    CLIENT_TYPE = "gcp" =>
       \A f \in Files :
          /\ inserts[f] <= 1
          /\ (inserts[f] = 1) <=> (serverJob[f] # "none")
          /\ \A k \in LogOf("start_file_load", f) :
                log[k].r = "ok" =>
                   /\ serverJob[f] # "none"
                   /\ jobs[f] \in {"none", "server"}
                   /\ \A i \in 1..Len(tasks) :
                         (pc = "pool" /\ tasks[i] = f) =>
                            /\ wstate[i] \in {"got_server", "got_rebound", "returned"}
                            /\ HeldJob(wstate[i]) \in {"server", "none"}

\* C15's case: after a kill, start_file_load was called again for a file whose
\* job the server already had; the job returned is bound to it and the server
\* has made one load.
C15_Witness ==
    /\ CLIENT_TYPE = "gcp"
    /\ pc = "pool"
    /\ \E i \in 1..Len(tasks) :
          /\ wstate[i] = "got_rebound"
          /\ HeldJob(wstate[i]) = "server"
          /\ inserts[tasks[i]] = 1

\* ------------------------------------------------------------ C16
\* C16: the job id restore_file_load looks up for a file in started/ is the
\* one start_file_load used for it in new/: the name of the file with its dots
\* replaced, whatever the folders on the path.
C16_SameJobId ==
    (unit.fn = "job_id" /\ unit.pc = "returned") =>
       /\ unit.start_id = unit.restore_id
       /\ Len(unit.start_id) = Len(unit.name)
       /\ \A i \in 1..Len(unit.name) :
             unit.start_id[i] = (IF unit.name[i] = "." THEN "_" ELSE unit.name[i])

\* C16's case: the id of a name with a dot and an underscore, in a package
\* whose load id has a dot, was computed for both paths.
C16_Witness ==
    /\ unit.fn = "job_id" /\ unit.pc = "returned"
    /\ unit.name = <<"a", ".", "_">>
    /\ unit.load = "1.5"
    /\ unit.restore_id = <<"a", "_", "_">>

\* ------------------------------------------------------------ C17
\* The files for which start_file_load of this tick returned a job.
Started == {f \in Files : \E k \in LogOf("start_file_load", f) : log[k].r = "ok"}

\* C17: with Redshift, a job returned by start_file_load or restore_file_load
\* is a completed job and status() says completed each time it is polled, so
\* its file goes to completed/; exception() is called only for jobs made with
\* status failed, never for such a job; restore_file_load never raises and
\* leaves the destination as it is.
C17_InsertJobsCompleted ==
    CLIENT_TYPE = "redshift" =>
       /\ \A f \in Started \cup Restored :
             /\ jobs[f] \in {"none", "completed"}
             /\ jobs[f] = "completed" => Status(f) = "completed"
             /\ pc = "done" => f \in folder[load_id]["completed"]
       /\ \A k \in LogIdx("exception") : jobs[log[k].f] = "failed" /\ log[k].r = "message"
       /\ \A k \in LogIdx("restore_file_load") : log[k].r = "ok"
       /\ \A f \in Files : serverJob[f] = "none"

\* C17's case: after a kill, a Redshift tick has restored two files, among
\* them one that had not loaded, and returned with both in completed/.
C17_Witness ==
    /\ CLIENT_TYPE = "redshift"
    /\ pc = "done"
    /\ Cardinality(Restored) = 2
    /\ \E f \in Restored : fileKind[f] # "good"
    /\ Restored \subseteq folder[load_id]["completed"]

\* ------------------------------------------------------------ C18
\* The table after a load that succeeded.
Loaded(u) == IF u.wd = "append" THEN Rows(u.prev, u.rows) ELSE Rows(0, u.rows)

TerminalPhrases ==
    {"Cannot insert a NULL value into column", "Numeric data overflow",
     "Precision exceeds maximum"}

\* C19: an OperationalError or InternalError raised in start_file_load is
\* terminal exactly when its server message holds a NULL violation, a numeric
\* overflow or a precision excess; when it is not, no job is made and the file
\* is in new/.
C19_TerminalOnlyByMessage ==
    (unit.fn = "start_file_load" /\ unit.pc # "call"
        /\ unit.ex \in {"OperationalError", "InternalError"}) =>
       /\ unit.raised = "terminal" <=>
             (unit.pgerror # NoMessage /\ unit.pgerror \cap TerminalPhrases # {})
       /\ (unit.pgerror = NoMessage \/ unit.pgerror \cap TerminalPhrases = {}) =>
             (unit.job = "None" /\ unit.at = "new")

\* ------------------------------------------------------------ C20
\* The tables after the first n files of the package are loaded one after
\* the other, in the order of the listing.
RECURSIVE LoadedInListingOrder(_, _)
LoadedInListingOrder(u, n) ==
    IF n = 0 THEN [t \in Tables |-> {Previous}]
    ELSE LoadFile(u, LoadedInListingOrder(u, n - 1), n)

\* C20: once every file of the package is loaded, the content of every table
\* and the folder of every file are the same whatever the order in which the
\* files were loaded: they are what loading the files in the order of the
\* listing gives.
C20_FilesIndependent ==
    (unit.fn = "spool_new_jobs" /\ unit.pending = {}) =>
       /\ unit.content = LoadedInListingOrder(unit, NumFiles)
       /\ \A f \in PackageFiles :
             unit.at[f] = IF unit.kind[f] = "good" THEN "completed" ELSE "failed"

\* ------------------------------------------------------------ C21
\* The hints a backend refuses on a new column of a table that exists.
RefusedHints(client) == IF client = "redshift" THEN COLUMN_HINTS ELSE {"partition", "cluster"}

\* Table t exists and has a new column with hint set.
HintedAfterCreate(u, t, hint) == u.exists[t] /\ \E c \in u.new_columns[t] : hint \in c

\* The call is over.
SchemaUpdateOver == unit.fn = "update_storage_schema" /\ unit.pc # "call"

C22_SchemaAsLoaded ==
    unit.fn = "spool_job" => SchemaTableWriteDisposition(unit) = unit.own_wd

\* ------------------------------------------------------------ C23
\* C23: a spool worker's connection is open only while the worker is inside
\* the with statement, and is closed when the worker leaves it, by return or
\* by exception, before the worker returns; no connection is used by two
\* workers; the files given to the workers of a tick are pairwise distinct.
C23_OwnClientPerWorker ==
    unit.fn = "pool" =>
       LET W == 1..Len(unit.param_chunk) IN
       /\ \A i \in W : unit.wpc[i] \in {"exited", "returned"} => unit.used[i] \cap unit.open = {}
       /\ unit.open = {unit.conn[i] : i \in {j \in W : unit.wpc[j] \in {"entered", "leaving"}}}
       /\ \A i, j \in W : i # j => unit.used[i] \cap unit.used[j] = {}
       /\ \A i, j \in W : i # j => unit.param_chunk[i] # unit.param_chunk[j]

\* C23's case: two workers; one has left the with statement by an exception
\* after a reconnect while the other is inside it.
C23_Witness ==
    /\ unit.fn = "pool" /\ Len(unit.param_chunk) = 2
    /\ unit.wpc[1] = "returned" /\ Cardinality(unit.used[1]) = 2
    /\ unit.wpc[2] = "entered" /\ unit.open = {unit.conn[2]}

\* ------------------------------------------------------------ C24
\* The tick in which the signal was raised has ended and no other has begun.
SignalledTickOver ==
    unit.fn = "signal" /\ pc = "failed" /\ log[Len(log)] = Entry("sleep", 0, "signal")

\* A later tick is past retrieve_jobs for the package of the signal.
LaterTickRetrieved ==
    /\ unit.fn = "signal" /\ load_id = unit.load_id
    /\ pc \in {"spool", "pool", "complete_load", "archive", "count", "poll", "done"}

\* C24: when sleep raises on the signal the tick ends with every folder as it
\* was, the running jobs' files in started/ and their server jobs alive; no
\* load is made between the signal and the end of the tick; a file of a job
\* that was running is never in new/ again nor loaded again, and as long as
\* it is in started/ every later tick that gets past retrieve_jobs holds a job
\* restored for it; files that were in completed/ or failed/ stay there until
\* the package is archived.
C24_SignalLeavesJobsInPlace ==
    unit.fn = "signal" =>
       /\ SignalledTickOver =>
             /\ folder = unit.folder /\ inserts = unit.inserts
             /\ unit.running \subseteq folder[unit.load_id]["started"]
       /\ \A f \in unit.running :
             /\ serverJob[f] # "none"
             /\ inserts[f] = unit.inserts[f]
             /\ f \notin folder[unit.load_id]["new"]
             /\ (LaterTickRetrieved /\ f \in folder[unit.load_id]["started"]) =>
                   (f \in Restored /\ jobs[f] # "none" /\ LogOf("start_file_load", f) = {})
       /\ pkg[unit.load_id] = "live" =>
             \A d \in {"completed", "failed"} :
                unit.folder[unit.load_id][d] \subseteq folder[unit.load_id][d]

\* C24's case: after the signal a later tick has restored the job that was
\* running, while another file of the package, already moved, is where it was.
C24_Witness ==
    /\ LaterTickRetrieved /\ pc = "poll"
    /\ \E f \in unit.running : f \in folder[load_id]["started"] /\ f \in Restored
    /\ unit.folder[load_id]["completed"] # {}

\* ---------------------------------------------------------------------------
\* C25  Every operation run under the managed state of the pipeline (the state
\*      initialisation of create_pipeline, set_default_schema, extract): when
\*      it raises, the state in memory is again the state the operation
\*      started with and state.json is not written; when it completes,
\*      state.json holds exactly the state in memory.
\* ---------------------------------------------------------------------------
ManagedOps == {"create_pipeline", "set_default_schema", "extract"}

ManagedOver ==
    /\ unit.fn = "pipeline"
    /\ unit.last.op \in ManagedOps
    /\ unit.last.result # "running"

C25_ManagedStateRestoresOrPersists ==
    ManagedOver =>
        LET o == unit.obj[unit.last.p] IN
        IF unit.last.raises
        THEN o.state = unit.last.backup_state /\ ~unit.last.saved
        ELSE /\ unit.last.saved
             /\ unit.dir.has_state
             /\ unit.dir.state_json = o.state

C25_Witness ==
    /\ ManagedOver
    /\ unit.last.op = "extract"
    /\ unit.last.result = "PipelineStepFailed"
    /\ unit.last.raises
    /\ unit.obj[unit.last.p].state = unit.last.backup_state
    /\ unit.last.backup_state.pipeline_name # Missing
    /\ unit.dir.state_json = unit.last.backup_state

\* ---------------------------------------------------------------------------
\* C26  After a second pipeline was created or restored in the process, every
\*      operation called on the earlier pipeline object (extract, normalize,
\*      load, flush, the list_* operations, get_default_schema, sync_schema,
\*      sql_client) fails with InvalidPipelineContext before it acts on a
\*      storage or on the warehouse.
\* ---------------------------------------------------------------------------
ContextOps == {"extract"} \cup NormalizeVerified \cup LoaderVerified

\* p was created or restored, and another pipeline object after it
Earlier(p) ==
    /\ Attached(unit.obj[p])
    /\ \E q \in Pipelines \ {p} :
          Attached(unit.obj[q]) /\ unit.obj[q].at > unit.obj[p].at

C26_EarlierPipelineRefused ==
    (/\ unit.fn = "pipeline"
     /\ unit.last.op \in ContextOps
     /\ Earlier(unit.last.p))
        => /\ unit.last.result = "InvalidPipelineContextException"
           /\ ~unit.last.acted

\* ---------------------------------------------------------------------------
\* C27  After create_pipeline returns, state.json holds exactly the
\*      pipeline_name, default_schema_name, loader_client_type and
\*      loader_schema_prefix of the new pipeline.  As stated, the working
\*      directory then holds no artifact of a previous pipeline whatever it
\*      held before; the code wipes the directory only when it held a
\*      state.json, and leaves what it held otherwise.
\* ---------------------------------------------------------------------------
CreateReturned ==
    /\ unit.fn = "pipeline"
    /\ unit.last.op = "create_pipeline"
    /\ unit.last.result = "returned"

\* the state create_pipeline persists for pipeline object p
FreshState(p) ==
    [pipeline_name |-> unit.obj[p].pipeline_name,
     default_schema_name |-> unit.obj[p].default_schema_name,
     loader_client_type |-> Credentials.CLIENT_TYPE,
     loader_schema_prefix |-> Credentials.default_dataset]

HoldsFreshState ==
    /\ unit.dir.has_state
    /\ unit.dir.state_json = FreshState(unit.last.p)

\* nothing but the schema and the state of the new pipeline
NoArtifacts ==
    /\ unit.dir.extractor = {} /\ unit.dir.temp = {}
    /\ unit.dir.extracted = {} /\ unit.dir.normalized = {} /\ unit.dir.completed = {}
    /\ unit.dir.schemas = {unit.obj[unit.last.p].default_schema_name}

\* the statement as given: no artifact, whatever the directory held
C27_NoArtifactWhateverHeld ==
    CreateReturned => (NoArtifacts /\ HoldsFreshState)

\* the statement the code satisfies
C27_WipedWhenStateFound ==
    CreateReturned =>
        /\ HoldsFreshState
        /\ IF unit.last.before.has_state
           THEN NoArtifacts
           ELSE /\ unit.dir.extracted = unit.last.before.extracted
                /\ unit.dir.normalized = unit.last.before.normalized
                /\ unit.dir.completed = unit.last.before.completed
                /\ unit.dir.schemas =
                      unit.last.before.schemas
                          \cup {unit.obj[unit.last.p].default_schema_name}

C27_Witness ==
    /\ CreateReturned
    /\ unit.last.before.has_state
    /\ unit.last.before.extracted # {}
    /\ unit.last.before.normalized # {}
    /\ unit.last.before.state_json # FreshState(unit.last.p)
    /\ NoArtifacts
    /\ HoldsFreshState

\* ---------------------------------------------------------------------------
\* C28  restore_pipeline fails with CannotRestorePipeline, raised to the
\*      caller, when the directory holds no state.json, when the stored
\*      pipeline_name differs from the name of the pipeline object, or when
\*      the default schema named in the state is missing; in each of these
\*      cases the call does not return.
\* ---------------------------------------------------------------------------
RestoreOver ==
    /\ unit.fn = "pipeline"
    /\ unit.last.op = "restore_pipeline"

\* the three cases, read from the directory the call found
CannotRestore(dir, name) ==
    \/ ~dir.has_state
    \/ (dir.has_state /\ dir.state_json.pipeline_name # Missing
                      /\ dir.state_json.pipeline_name # name)
    \/ (dir.has_state /\ dir.state_json.pipeline_name = name
                      /\ dir.state_json.default_schema_name # Missing
                      /\ dir.state_json.default_schema_name \notin dir.schemas)

C28_CannotRestoreIsRaised ==
    (RestoreOver /\ CannotRestore(unit.last.before, unit.obj[unit.last.p].pipeline_name))
        => unit.last.result = "CannotRestorePipelineException"

\* ---------------------------------------------------------------------------
\* C29  Restoring a pipeline of the same name from the working directory of a
\*      created pipeline gives the default schema name of the creating
\*      pipeline (the empty name included) and its lists of extracted,
\*      normalized and completed loads, and changes nothing on disk.
\* ---------------------------------------------------------------------------
\* list_extracted_loads, list_normalized_loads, list_completed_loads as
\* pipeline object p gets them, None when the call raises
Lists(p) ==
    IF verify_loader_instance(unit, p) = "ok"
    THEN [extracted |-> {f.load_id : f \in unit.dir.extracted},
          normalized |-> unit.dir.normalized,
          completed |-> unit.dir.completed,
          raised |-> FALSE]
    ELSE [extracted |-> {}, normalized |-> {}, completed |-> {}, raised |-> TRUE]

\* the lists the creating pipeline had when restore was called
ListsBefore ==
    [extracted |-> {f.load_id : f \in unit.last.before.extracted},
     normalized |-> unit.last.before.normalized,
     completed |-> unit.last.before.completed,
     raised |-> FALSE]

\* q created the pipeline of the directory and was the pipeline of the process
\* when p, of the same name, was restored from the state q holds
RestoredFrom(p, q) ==
    /\ RestoreOver /\ unit.last.p = p /\ q # p
    /\ unit.obj[q].status = "created"
    /\ unit.obj[q].pipeline_name = unit.obj[p].pipeline_name
    /\ \A r \in Pipelines \ {p} :
          unit.obj[r].loader_instance <= unit.obj[q].loader_instance
    /\ unit.last.before.has_state
    /\ unit.last.before.state_json = unit.obj[q].state

C29_RestoreYieldsCreated ==
    unit.fn = "pipeline" =>
        \A p, q \in Pipelines :
            RestoredFrom(p, q) =>
                /\ unit.obj[p].status = "restored"
                /\ unit.obj[p].default_schema_name = unit.obj[q].default_schema_name
                /\ Lists(p) = ListsBefore
                /\ unit.dir = unit.last.before

C29_Witness ==
    /\ unit.fn = "pipeline"
    /\ \E p, q \in Pipelines :
          /\ RestoredFrom(p, q)
          /\ unit.obj[p].status = "restored"
          /\ unit.obj[p].default_schema_name = ""
          /\ unit.obj[q].default_schema_name = ""
          /\ Lists(p).extracted # {}
          /\ Lists(p).normalized # {}

\* ---------------------------------------------------------------------------
\* C30  A successful extract of n >= 1 records ends with exactly one new file,
\*      for a fresh load_id and with count n, in the extracted folder of the
\*      normalize store, and with the temporary file gone from the extractor
\*      store; no file of the extracted folder is ever partially written; an
\*      extract of no record commits no file to the normalize store.
\* ---------------------------------------------------------------------------
ExtractReturned ==
    /\ unit.fn = "pipeline"
    /\ unit.last.op = "extract"
    /\ unit.last.result = "returned"

\* the load ids a directory knows
LoadIds(dir) ==
    {f.load_id : f \in dir.extractor \cup dir.temp \cup dir.extracted}
        \cup dir.normalized \cup dir.completed

Committed == File(unit.last.load_id, unit.last.n, TRUE)

C30_ExtractCommitsOneFile ==
    unit.fn = "pipeline" =>
        /\ \A f \in unit.dir.extracted : f.whole
        /\ ExtractReturned =>
              /\ unit.dir.extractor = unit.last.before.extractor
              /\ unit.dir.temp = unit.last.before.temp
              /\ unit.last.load_id \notin LoadIds(unit.last.before)
              /\ IF unit.last.n >= 1
                 THEN /\ Committed \notin unit.last.before.extracted
                      /\ unit.dir.extracted = unit.last.before.extracted \cup {Committed}
                 ELSE unit.dir.extracted = unit.last.before.extracted

C30_Witness ==
    /\ ExtractReturned
    /\ unit.last.n = MaxItems
    /\ unit.last.before.extracted # {}
    /\ Committed \in unit.dir.extracted
    /\ Cardinality(unit.dir.extracted) = Cardinality(unit.last.before.extracted) + 1

\* ---------------------------------------------------------------------------
\* C31  Whenever a step aborts (extract raising, or a normalize or load run
\*      whose metrics have has_failed set), the pipeline raises
\*      PipelineStepFailed naming that step and carrying the metrics of that
\*      run; when a step does not fail, no PipelineStepFailed is raised and the
\*      metrics of the run have has_failed = FALSE.
\* ---------------------------------------------------------------------------
StepOps == {"extract", "normalize", "load", "flush"}

\* a step was run by the call that just ended
StepOver ==
    /\ unit.fn = "pipeline"
    /\ unit.last.op \in StepOps
    /\ unit.last.result \notin
          {"running", "NoPipelineException", "InvalidPipelineContextException"}

StepAborted ==
    \/ unit.last.op = "extract" /\ unit.last.result # "returned"
    \/ unit.last.op # "extract" /\ unit.last.metrics.has_failed

NormalizeOver == unit.fn = "normalize" /\ unit.pc = "done"

\* the run of the pool was reached
Pooled == unit.pooled

C32_InteractiveWorkersRejected ==
    NormalizeOver =>
        /\ (unit.interactive /\ unit.workers > 1) =>
              /\ unit.result = "NotImplementedError"
              /\ ~unit.verified
              /\ ~Pooled
              /\ \E c \in NormalizeCalls : c.CONFIG = unit.CONFIG
        /\ (Pooled /\ unit.workers = 1) => unit.CONFIG.POOL_TYPE = "thread"
        /\ (Pooled /\ unit.workers > 1) =>
              (~unit.interactive /\ unit.CONFIG.POOL_TYPE = "process")
        /\ (~(unit.interactive /\ unit.workers > 1) /\ unit.valid) => Pooled

C32_Witness ==
    /\ NormalizeOver
    /\ unit.interactive /\ unit.workers > 1 /\ unit.valid
    /\ unit.result = "NotImplementedError"
    /\ unit.CONFIG.POOL_TYPE = "thread"

\* ---------------------------------------------------------------------------
\* C33  Building the name of a staged file and parsing it back is a round
\*      trip: for every schema name (the empty one included), dot-free stem,
\*      event count and load_id, parsing build(schema, stem, count, load_id)
\*      gives (count, load_id, schema); commit_events refuses with ValueError,
\*      moving and deleting no file, a schema name that is not in its
\*      normalized form.
\* ---------------------------------------------------------------------------
RoundTrip(u) ==
    parse_extracted_file_name(
        build_extracted_file_name(u.schema_name, u.dest_file_stem,
                                  u.no_processed_events, u.load))
        = <<u.no_processed_events, u.load, u.schema_name>>

C33_NameRoundTripAndRefusal ==
    (unit.fn = "commit_events" /\ unit.pc # "call") =>
        /\ RoundTrip(unit)
        /\ IF unit.schema_name # normalize_schema_name(unit.schema_name)
           THEN /\ unit.pc = "raised" /\ unit.result = <<"ValueError">>
                /\ unit.extractor = {unit.load} /\ unit.extracted = {}
           ELSE /\ unit.pc = "returned"
                /\ parse_extracted_file_name(unit.result)
                      = <<unit.no_processed_events, unit.load, unit.schema_name>>

C33_Witness ==
    /\ unit.fn = "commit_events" /\ unit.pc = "raised"
    /\ unit.schema_name = <<"a", "_">>
    /\ unit.no_processed_events = MaxItems
    /\ unit.extractor = {unit.load} /\ unit.extracted = {}
    /\ RoundTrip(unit)
    /\ RoundTrip([unit EXCEPT !.schema_name = <<>>])

\* ---------------------------------------------------------------------------
\* C34  Opening a versioned store has an outcome fixed by the version on disk
\*      and the owner flag: without a version file the owner writes the
\*      current version; a version lower than the current one runs the
\*      registered migrations in order and leaves the store at exactly the
\*      current version; a version higher than the current one, or one with
\*      no migration path, fails with NoMigrationPath and leaves the version
\*      file unchanged.
\* ---------------------------------------------------------------------------
\* every migration from version v up to the current one is registered
HasPath(v, migrations) == \A w \in v .. STORAGE_VERSION - 1 : w \in migrations

OpenOver == unit.fn = "versioned_storage" /\ unit.pc # "open"

StuckLoad == PkgOf(StuckFile)

StuckIn(d) == StuckFile \in folder[StuckLoad][d]

\* The file fails on every attempt.
Stuck == fileKind[StuckFile] \in {"transient", "retry"}

\* C35 (amended): there is no retry bound.  A file of the first package that
\* fails transiently on every attempt is tried again in tick after tick and
\* never reaches completed/ or failed/; the package is never archived and no
\* later package is ever worked on.  When its job reports retry the file goes
\* from new/ to started/ and back in every attempt; when start_file_load
\* raises, the file never leaves new/.
C35_NoRetryBound ==
    /\ [](Stuck => pkg[StuckLoad] = "live" /\ load_id \in {0, StuckLoad})
    /\ [](Stuck => StuckIn("new") \/ StuckIn("started"))
    /\ []<>(Stuck => /\ pc = "pool"
                      /\ \E i \in 1..Len(tasks) : tasks[i] = StuckFile /\ wstate[i] = "submitted")
    /\ []<>(fileKind[StuckFile] = "retry" => StuckIn("started"))
    /\ [](fileKind[StuckFile] = "transient" => StuckIn("new"))
    /\ []<>(Stuck => StuckIn("new"))

\* C35 witness: every other file of the package is done, the tick has handed
\* the file that always fails to the pool again and got no job or a job to retry.
C35_Witness ==
    /\ \A f \in FilesOf(StuckLoad) \ {StuckFile} : OnDisk(f, "completed") \/ OnDisk(f, "failed")
    /\ FilesOf(StuckLoad) # {StuckFile}
    /\ tasks = <<StuckFile>>
    /\ pc = "poll"
    /\ \/ fileKind[StuckFile] = "transient" /\ wstate[1] = "none"
       \/ fileKind[StuckFile] = "retry" /\ jobs[StuckFile] = "retry" /\ StuckIn("started")

\* C35 as stated: the file cycles between new/ and started/ forever, whether
\* start_file_load raises or the job reports retry.
C35_CyclesNewStarted ==
    /\ [](Stuck => pkg[StuckLoad] = "live" /\ load_id \in {0, StuckLoad})
    /\ []<>(Stuck => StuckIn("started"))
    /\ []<>(Stuck => StuckIn("new"))

\* ------------------------------------------------------------ C36
\* The packages not yet archived.
Unarchived == {p \in Loads : pkg[p] = "live"}

\* The tick retrieved or spooled at least one file.
TookFiles == Restored # {} \/ Len(tasks) > 0

\* C36: a tick that retrieved or spooled at least one file does not archive the
\* package, even when all its jobs finished in it; a tick archives only when it
\* found new/ and started/ empty; a tick that found a package returns a result
\* that is not idle with pending_items the number of packages not archived at
\* its end; a tick that found no package returns the idle result with
\* pending_items 0 and has called no client.
C36_TickMetrics ==
    /\ (InTick /\ load_id # 0 /\ TookFiles) =>
          /\ pkg[load_id] = "live"
          /\ ~Called("complete_load") /\ ~Called("archive_load")
          /\ pc \notin {"complete_load", "archive", "count"}
    /\ (Called("archive_load") \/ pc \in {"archive", "count"}) =>
          /\ folder[load_id]["new"] = {} /\ folder[load_id]["started"] = {}
          /\ ~TookFiles
    /\ (pc = "done" /\ load_id # 0) =>
          /\ ~TRunMetrics.was_idle
          /\ TRunMetrics.pending_items = Cardinality(Unarchived)
          /\ Called("archive_load") <=> pkg[load_id] # "live"
    /\ (pc = "done" /\ load_id = 0) =>
          /\ TRunMetrics = [was_idle |-> TRUE, has_failed |-> FALSE, pending_items |-> 0]
          /\ Unarchived = {}
          /\ log = <<>>

\* C36's case: a tick spooled every file of its package, all the jobs finished
\* in it and the tick has returned: the package is still counted as pending.
C36_Witness ==
    /\ pc = "done"
    /\ load_id # 0
    /\ Len(tasks) = Cardinality(FilesOf(load_id))
    /\ folder[load_id]["new"] = {} /\ folder[load_id]["started"] = {}
    /\ pkg[load_id] = "live"
    /\ TRunMetrics.pending_items = Cardinality(Unarchived)
    /\ TRunMetrics.pending_items >= 1

\* ------------------------------------------------------------ C37
\* C37 as stated: whenever status() has been called on a job that a client
\* made, the connection of the client that made it is open.
C37_PolledWhileClientOpen ==
    unit.fn = "pool" =>
       \A i \in unit.polled : unit.job[i] = "client" => unit.conn[i] \in unit.open

\* ------------------------------------------------------------ C38
\* The job ids of two job files of a package have been computed.
JobIdPairOver == unit.fn = "job_id_pair" /\ unit.pc = "returned"

NoUnderscore(str) == \A i \in 1..Len(str) : str[i] # "_"

\* C38 (amended): two distinct job file names <table>.<stem>.<ext> of a package
\* whose stems hold no underscore never yield the same BigQuery job id, whatever
\* underscores the table names hold.
C38_JobIdInjectiveOnPlainStems ==
    (/\ JobIdPairOver
     /\ unit.a # unit.b
     /\ NoUnderscore(unit.a.stem) /\ NoUnderscore(unit.b.stem))
       => unit.id_a # unit.id_b

\* C38's case: two files with the same stem, of a table and of a table whose
\* name is that of the first with an underscore, got two ids.
C38_Witness ==
    /\ JobIdPairOver
    /\ unit.a.table = <<"a">> /\ unit.b.table = <<"a", "_">>
    /\ unit.a.stem = <<"a">> /\ unit.b.stem = <<"a">>
    /\ unit.a.ext = unit.b.ext
    /\ unit.id_a = <<"a", "_", "a", "_", "jsonl">>
    /\ unit.id_b = <<"a", "_", "_", "a", "_", "jsonl">>

\* C38 as stated: two distinct job file names <table>.<stem>.<ext> of a package
\* never yield the same job id.
C38_JobIdInjective ==
    (JobIdPairOver /\ unit.a # unit.b) => unit.id_a # unit.id_b

\* ------------------------------------------------------------ C39
\* C39 as stated: the files rejected with LoadFileTooBig are exactly those of
\* at least 16 * 1024 * 1024 = 16777216 bytes; every smaller file is passed on
\* to the insert.
C39_TooBigFrom16MB ==
    (unit.fn = "insert_size" /\ unit.pc = "returned") =>
       (unit.result = "LoadFileTooBig" <=> unit.st_size >= 16 * 1024 * 1024)

\* ------------------------------------------------------------ C40
\* The live set of the polling loop: the jobs still to poll in this round and
\* those found running in it.
Live == todo \cup remaining

\* The jobs of the tick that have left the live set.
LeftLive == {f \in Files : jobs[f] # "none"} \ Live

\* C40: the polling loop is left when a round ends with no job running, and
\* only then goes on; while a tick polls, the live set never grows, and a job
\* that has left it is not polled and its file not moved again; if every load
\* job on the server ends, the loop is left.
C40_PollingTerminates ==
    /\ [][(pc = "poll" /\ todo = {}) =>
             \/ remaining = {} /\ pc' = "done"
             \/ remaining # {} /\ pc' = "poll" /\ todo' = remaining
             \/ UNCHANGED tickVars]_vars
    /\ [][(pc = "poll" /\ pc' = "poll") =>
             /\ Live' \subseteq Live
             /\ \A f \in LeftLive :
                   \A d \in Folders : (f \in folder[load_id][d]) <=> (f \in folder'[load_id][d])]_vars
    /\ [](pc = "poll" => \A f \in Live : f \in folder[load_id]["started"])
    /\ <>(pc \in {"done", "failed"})

\* C40's case: a second round is on: a job is still to poll while a job after
\* it in the list has been polled and has left the live set.
C40_Witness ==
    /\ pc = "poll"
    /\ \E f \in todo : \E g \in LeftLive :
          /\ g > f
          /\ jobs[f] = "server"
          /\ g \notin folder[load_id]["started"]

====
